---- MODULE Spec2Model ----
(***************************************************************************)
(* six7: peer-to-peer chatroom CLI (src/src/main.rs).                      *)
(*                                                                         *)
(* Every node runs three tasks: the Pub/Sub handler, the DM handler and    *)
(* the command loop fed by the stdin thread.  The Korium node (transport,  *)
(* gossip, DHT) is the environment: it delivers published messages and     *)
(* requests, and answers a send with a response, an error or nothing.      *)
(*                                                                         *)
(* Text and payloads are sequences of bytes (0..255).  Strings the model   *)
(* draws as inputs are ASCII; the byte 255 stands for input that is not    *)
(* UTF-8.  Text and payloads that can be as long as a whole message are    *)
(* held in the state in pieces of PieceLen bytes (Hold), and read back as   *)
(* one sequence (Bytes).                                                    *)
(***************************************************************************)
EXTENDS Integers, Sequences, FiniteSets, TLC

\* ------------------------------------------------------------------------
\* Byte strings
\* ------------------------------------------------------------------------

\* A function over 1..n as a sequence value.
AsSeq(f, n) == SubSeq(f, 1, n)

Rep(b, n) == AsSeq([i \in 1..n |-> b], n)

Min2(a, b) == IF a <= b THEN a ELSE b

\* A byte string as the state holds it: its pieces, in order, each of PieceLen
\* bytes but the last.
PieceLen == 256

Hold(s) ==
    LET n == Len(s)
        m == (n + PieceLen - 1) \div PieceLen
    IN  AsSeq([j \in 1..m |->
                 SubSeq(s, PieceLen * (j - 1) + 1, Min2(PieceLen * j, n))], m)

\* The number of bytes held.
Size(h) == IF h = << >> THEN 0 ELSE PieceLen * (Len(h) - 1) + Len(h[Len(h)])

\* The pieces lo..hi of h, joined.
RECURSIVE Join(_, _, _)
Join(h, lo, hi) ==
    IF lo > hi THEN << >>
    ELSE IF lo = hi THEN h[lo]
    ELSE LET mid == (lo + hi) \div 2
         IN  Join(h, lo, mid) \o Join(h, mid + 1, hi)

\* The byte string held.
Bytes(h) == Join(h, 1, Len(h))

\* s[from..] (1-based); empty when from is past the end.
Drop(s, from) == SubSeq(s, from, Len(s))

\* str::starts_with
StartsWith(s, p) == Len(s) >= Len(p) /\ SubSeq(s, 1, Len(p)) = p

\* The first index i >= from with s[i..] starting with pat, or 0 (str::find).
FindFrom(s, pat, from) ==
    LET last == Len(s) - Len(pat) + 1
        Hit(i) == \A k \in 1..Len(pat) : s[i + k - 1] = pat[k]
    IN  IF \E i \in from..last : Hit(i)
        THEN CHOOSE i \in from..last : Hit(i) /\ \A j \in from..(i - 1) : ~Hit(j)
        ELSE 0

\* char::is_whitespace on ASCII: \t \n \v \f \r and space.
IsWhitespace(b) == b \in {9, 10, 11, 12, 13, 32}

\* str::trim: both ends stripped of whitespace.
Trim(s) ==
    LET n == Len(s)
        Solid(i) == ~IsWhitespace(s[i])
    IN  IF \A i \in 1..n : ~Solid(i)
        THEN << >>
        ELSE LET a == CHOOSE i \in 1..n : Solid(i) /\ \A j \in 1..(i - 1) : ~Solid(j)
                 r == CHOOSE k \in 1..n :
                          Solid(n + 1 - k) /\ \A j \in 1..(k - 1) : ~Solid(n + 1 - j)
             IN  SubSeq(s, a, n + 1 - r)

\* str::split_once(pat): <<TRUE, before, after>> at the first match, else <<FALSE>>.
SplitOnce(s, pat) ==
    LET i == FindFrom(s, pat, 1)
    IN  IF i = 0 THEN [found |-> FALSE, before |-> << >>, after |-> << >>]
        ELSE [found |-> TRUE, before |-> SubSeq(s, 1, i - 1),
              after |-> Drop(s, i + Len(pat))]

\* str::splitn(n, ' ') for n = 2 and n = 3: at most n parts, the last one the rest.
SplitN(s, n) ==
    LET one == SplitOnce(s, <<32>>)
    IN  IF n <= 1 \/ ~one.found THEN <<s>>
        ELSE IF n = 2 THEN <<one.before, one.after>>
        ELSE LET two == SplitOnce(one.after, <<32>>)
             IN  IF two.found THEN <<one.before, two.before, two.after>>
                 ELSE <<one.before, one.after>>

\* ------------------------------------------------------------------------
\* UTF-8
\* ------------------------------------------------------------------------

IsCont(b) == b >= 128 /\ b <= 191

\* The length a lead byte announces; 0 for a byte that cannot lead.
LeadLen(b) ==
    IF b < 128 THEN 1
    ELSE IF b >= 194 /\ b <= 223 THEN 2
    ELSE IF b >= 224 /\ b <= 239 THEN 3
    ELSE IF b >= 240 /\ b <= 244 THEN 4
    ELSE 0

\* s[i] leads a well-formed scalar value (core::str::from_utf8's table).
WellLed(s, i) ==
    LET b == s[i]
        n == LeadLen(b)
        c(k) == i + k <= Len(s) /\ IsCont(s[i + k])
        second(lo, hi) == i + 1 <= Len(s) /\ s[i + 1] >= lo /\ s[i + 1] <= hi
    IN  CASE n = 1 -> TRUE
          [] n = 2 -> c(1)
          [] n = 3 -> /\ c(2)
                      /\ IF b = 224 THEN second(160, 191)
                         ELSE IF b = 237 THEN second(128, 159)
                         ELSE c(1)
          [] n = 4 -> /\ c(2) /\ c(3)
                      /\ IF b = 240 THEN second(144, 191)
                         ELSE IF b = 244 THEN second(128, 143)
                         ELSE c(1)
          [] OTHER -> FALSE

\* s[i] is a continuation byte of the well-formed scalar value led k bytes before.
Owned(s, i) ==
    \E k \in 1..3 : /\ i - k >= 1
                    /\ LeadLen(s[i - k]) > k
                    /\ WellLed(s, i - k)

\* std::str::from_utf8(s).is_ok()
Utf8Valid(s) ==
    \A i \in 1..Len(s) : IF IsCont(s[i]) THEN Owned(s, i) ELSE WellLed(s, i)

\* U+FFFD REPLACEMENT CHARACTER
REPLACEMENT == <<239, 191, 189>>

RECURSIVE LossyFrom(_, _)
LossyFrom(s, i) ==
    IF i > Len(s) THEN << >>
    ELSE IF (IF IsCont(s[i]) THEN Owned(s, i) ELSE WellLed(s, i))
         THEN <<s[i]>> \o LossyFrom(s, i + 1)
         ELSE REPLACEMENT \o LossyFrom(s, i + 1)

\* String::from_utf8_lossy: well-formed text unchanged, each ill-formed byte
\* replaced by U+FFFD (exact when ill-formed bytes are not truncated prefixes
\* of longer sequences, which the inputs of the model never are).
from_utf8_lossy(s) == IF Utf8Valid(s) THEN s ELSE LossyFrom(s, 1)

\* ------------------------------------------------------------------------
\* sanitize_text
\* ------------------------------------------------------------------------

\* The byte s[i] belongs to a control character (category Cc: U+0000..U+001F,
\* U+007F, and U+0080..U+009F, which UTF-8 writes C2 80 .. C2 9F).
InControl(s, i) ==
    \/ s[i] < 32
    \/ s[i] = 127
    \/ s[i] = 194 /\ i < Len(s) /\ s[i + 1] >= 128 /\ s[i + 1] <= 159
    \/ s[i] >= 128 /\ s[i] <= 159 /\ i > 1 /\ s[i - 1] = 194

sanitize_text(text) ==
    LET kept == SelectSeq([i \in 1..Len(text) |-> i],
                          LAMBDA i : ~InControl(text, i) \/ text[i] = 10 \/ text[i] = 9)
    IN  AsSeq([k \in 1..Len(kept) |-> text[kept[k]]], Len(kept))

\* ------------------------------------------------------------------------
\* Six7 message protocol v1.3 (postcard wire format)
\* ------------------------------------------------------------------------

MAX_MESSAGE_SIZE_BYTES == 65536
MAX_IDENTITY_LENGTH == 64

\* Varint values from VarintCap up are not told apart (every buffer of the
\* model is far shorter).
VarintCap == 268435456

\* impl Display for MessageType
MessageTypeTag ==
    [Text            |-> <<116,101,120,116>>,
     Image           |-> <<105,109,97,103,101>>,
     Video           |-> <<118,105,100,101,111>>,
     Audio           |-> <<97,117,100,105,111>>,
     Document        |-> <<100,111,99,117,109,101,110,116>>,
     Location        |-> <<108,111,99,97,116,105,111,110>>,
     Contact         |-> <<99,111,110,116,97,99,116>>,
     GroupInvite     |-> <<103,114,111,117,112,73,110,118,105,116,101>>,
     ContactRequest  |-> <<99,111,110,116,97,99,116,82,101,113,117,101,115,116>>,
     ContactAccepted |-> <<99,111,110,116,97,99,116,65,99,99,101,112,116,101,100>>,
     Vibe            |-> <<118,105,98,101>>,
     ReadReceipt     |-> <<114,101,97,100,82,101,99,101,105,112,116>>,
     ProfileUpdate   |-> <<112,114,111,102,105,108,101,85,112,100,97,116,101>>]

\* DirectMessage::new
NewDirectMessage(id, content, now, message_type) ==
    [id |-> id, content |-> content, timestamp |-> now,
     message_type |-> MessageTypeTag[message_type]]

\* format!("{}", n) for an i64: the decimal digits, '-' first when negative.
RECURSIVE ToDecimal(_)
ToDecimal(n) ==
    IF n < 0 THEN <<45>> \o ToDecimal(0 - n)
    ELSE IF n < 10 THEN <<48 + n>>
    ELSE ToDecimal(n \div 10) \o <<48 + (n % 10)>>

\* message_ids.join(sep)
RECURSIVE SliceJoin(_, _)
SliceJoin(message_ids, sep) ==
    IF message_ids = << >> THEN << >>
    ELSE IF Len(message_ids) = 1 THEN message_ids[1]
    ELSE message_ids[1] \o sep \o SliceJoin(Tail(message_ids), sep)

\* DirectMessage::read_receipt; id_clock and now are what its two calls of
\* current_timestamp_ms() return, in the order the struct's fields are built.
read_receipt(message_ids, id_clock, now) ==
    [id |-> <<114,114,45>> \o ToDecimal(id_clock),
     content |-> SliceJoin(message_ids, <<44>>),
     timestamp |-> now,
     message_type |-> MessageTypeTag.ReadReceipt]

\* GroupMessage::new
NewGroupMessage(id, content, now, message_type, group_id) ==
    [id |-> id, content |-> content, timestamp |-> now,
     message_type |-> MessageTypeTag[message_type], group_id |-> group_id]

\* postcard varint(u64): seven bits a byte, least significant first.
RECURSIVE EncVarint(_)
EncVarint(n) ==
    IF n < 128 THEN <<n>> ELSE <<(n % 128) + 128>> \o EncVarint(n \div 128)

\* postcard str: varint(len) then the bytes.
EncStr(s) == EncVarint(Len(s)) \o s

\* postcard i64: zigzag, then varint.
EncI64(t) == EncVarint(IF t >= 0 THEN 2 * t ELSE -2 * t - 1)

\* postcard::to_allocvec(&DirectMessage): the fields in declaration order.
EncDirectMessage(dm) ==
    EncStr(dm.id) \o EncStr(dm.content) \o EncI64(dm.timestamp)
        \o EncStr(dm.message_type)

\* postcard::to_allocvec(&GroupMessage)
EncGroupMessage(gm) ==
    EncStr(gm.id) \o EncStr(gm.content) \o EncI64(gm.timestamp)
        \o EncStr(gm.message_type) \o EncStr(gm.group_id)

\* AckResponse::success().to_bytes(): a bool is one byte.
AckSuccessBytes == <<1>>

\* b"received"
LEGACY_ACK == <<114,101,99,101,105,118,101,100>>

\* postcard try_take_varint_u64 at buf[pos]: at most ten bytes, the tenth at
\* most 1; [ok, val, next].
TakeVarint(buf, pos) ==
    LET hi == Min2(pos + 9, Len(buf))
        Ends(j) == buf[j] < 128
    IN  IF ~\E j \in pos..hi : Ends(j)
        THEN [ok |-> FALSE, val |-> 0, next |-> pos]
        ELSE LET j == CHOOSE j \in pos..hi : Ends(j) /\ \A k \in pos..(j - 1) : ~Ends(k)
                 i == j - pos
                 G(k) == IF k <= i THEN buf[pos + k] % 128 ELSE 0
             IN  IF i = 9 /\ buf[j] > 1
                 THEN [ok |-> FALSE, val |-> 0, next |-> pos]
                 ELSE [ok |-> TRUE,
                       val |-> IF \E k \in 4..i : G(k) # 0
                               THEN VarintCap
                               ELSE G(0) + 128 * G(1) + 16384 * G(2) + 2097152 * G(3),
                       next |-> j + 1]

\* postcard deserialize_str at buf[pos]: the length, that many bytes, UTF-8.
TakeStr(buf, pos) ==
    LET n == TakeVarint(buf, pos)
    IN  IF ~n.ok \/ n.next + n.val - 1 > Len(buf)
        THEN [ok |-> FALSE, val |-> << >>, next |-> pos]
        ELSE LET str == SubSeq(buf, n.next, n.next + n.val - 1)
             IN  IF Utf8Valid(str)
                 THEN [ok |-> TRUE, val |-> str, next |-> n.next + n.val]
                 ELSE [ok |-> FALSE, val |-> << >>, next |-> pos]

\* postcard deserialize_i64 at buf[pos]
TakeI64(buf, pos) ==
    LET u == TakeVarint(buf, pos)
    IN  [ok |-> u.ok,
         val |-> IF u.val % 2 = 0 THEN u.val \div 2 ELSE -(u.val \div 2) - 1,
         next |-> u.next]

NoDirectMessage ==
    [id |-> << >>, content |-> << >>, timestamp |-> 0, message_type |-> << >>]

\* postcard::from_bytes::<DirectMessage>: bytes after the last field are ignored.
DecDirectMessage(buf) ==
    LET id == TakeStr(buf, 1)
        content == TakeStr(buf, id.next)
        timestamp == TakeI64(buf, content.next)
        message_type == TakeStr(buf, timestamp.next)
    IN  IF id.ok /\ content.ok /\ timestamp.ok /\ message_type.ok
        THEN [ok |-> TRUE,
              val |-> [id |-> id.val, content |-> content.val,
                       timestamp |-> timestamp.val,
                       message_type |-> message_type.val]]
        ELSE [ok |-> FALSE, val |-> NoDirectMessage]

NoGroupMessage ==
    [id |-> << >>, content |-> << >>, timestamp |-> 0, message_type |-> << >>,
     group_id |-> << >>]

\* postcard::from_bytes::<GroupMessage>
DecGroupMessage(buf) ==
    LET id == TakeStr(buf, 1)
        content == TakeStr(buf, id.next)
        timestamp == TakeI64(buf, content.next)
        message_type == TakeStr(buf, timestamp.next)
        group_id == TakeStr(buf, message_type.next)
    IN  IF id.ok /\ content.ok /\ timestamp.ok /\ message_type.ok /\ group_id.ok
        THEN [ok |-> TRUE,
              val |-> [id |-> id.val, content |-> content.val,
                       timestamp |-> timestamp.val,
                       message_type |-> message_type.val,
                       group_id |-> group_id.val]]
        ELSE [ok |-> FALSE, val |-> NoGroupMessage]

\* postcard::from_bytes::<AckResponse>: one byte, 0 or 1.
DecAckResponse(buf) ==
    IF Len(buf) >= 1 /\ buf[1] \in {0, 1}
    THEN [ok |-> TRUE, ack |-> buf[1] = 1]
    ELSE [ok |-> FALSE, ack |-> FALSE]

\* hex::decode(s).is_ok(): an even number of hex digits.
IsHexDigit(b) ==
    \/ b >= 48 /\ b <= 57
    \/ b >= 65 /\ b <= 70
    \/ b >= 97 /\ b <= 102

HexDecodes(s) == Len(s) % 2 = 0 /\ \A i \in 1..Len(s) : IsHexDigit(s[i])

\* ------------------------------------------------------------------------
\* Nodes and state
\* ------------------------------------------------------------------------

Node == {"A", "B"}

\* node.identity(): 64 hex characters.
NodeIdentity == [A |-> Rep(97, 64), B |-> Rep(98, 64)]

\* tokio::sync::mpsc::channel::<String>(16)
STDIN_CHANNEL_CAPACITY == 16

\* peers.len() > 1000
REGISTRY_LIMIT == 1000

VARIABLES
    args,       \* [Node -> [name, room]]: Args (name held in pieces)
    peers,      \* [Node -> [id_prefix -> name]]: the PeerRegistry's HashMap
    lock,       \* [Node -> [readers, writer]]: the PeerRegistry's RwLock
    pubsub_rx,  \* [Node -> Seq([topic, from, data])]: node.messages() (data held
                \* in pieces, here and in ps.msg, calls and published)
    ps,         \* [Node -> [pc, msg, id_prefix, content, sender_name,
                \* display_content]]: the PubSub handler's position and locals;
                \* msg is the item recv() returned last
    dm_rx,      \* [Node -> Seq(response_tx)]: node.incoming_requests(); each item
                \* (from, data, response_tx) is held once, in calls[response_tx]
    stdin_rx,   \* [Node -> [open, queue]]: the channel from the stdin thread
    cmd,        \* [Node -> [pc, kind, rid, peer, message, todo]]: the command loop
    calls,      \* Seq([caller, from, to, data, link, received, replies]): requests
                \* and their response channels, in the order they were made
    published,  \* Seq([by, topic, data, ok]): node.publish calls
    printed,    \* [Node -> [room, dm, cmd -> Seq(line)]]: what each task printed
    rx_open,    \* [Node -> [pubsub_rx, dm_rx -> BOOLEAN]]: the sender side of the
                \* stream still exists (recv() returns None once it is gone and
                \* the stream is drained)
    dm_task,    \* [Node -> [pc]]: the DM handler's position
    used,       \* [lines: [Node -> Nat], env: Nat]: inputs drawn so far
    built       \* Seq([message_ids, dm]): the calls of DirectMessage::read_receipt
                \* and the message each returned

vars == <<args, peers, lock, pubsub_rx, ps, dm_rx, stdin_rx, cmd, calls,
          published, printed, rx_open, dm_task, used, built>>

\* A printed line: which println!, and the values it formats.
Line(what, a, b, c, mark) ==
    [what |-> what, a |-> Hold(a), b |-> Hold(b), c |-> Hold(c), mark |-> mark]

Say(n, task, line) == [printed EXCEPT ![n][task] = Append(@, line)]

\* main has not returned: after the command loop ends the process exits and
\* takes the spawned tasks with it.
Running(n) == cmd[n].pc # "done"

\* A variant of ShortId: the whole identity.
ShortIdWhole(id) == id

\* &id[..8.min(id.len())]
ShortId(id) == SubSeq(id, 1, Min2(8, Len(id)))

\* format!("chat/{}", room)
RoomTopic(room) == <<99,104,97,116,47>> \o room

NoLock == [readers |-> {}, writer |-> "none"]

NoMsg == [topic |-> << >>, from |-> << >>, data |-> << >>]

PsIdle == [pc |-> "recv", msg |-> NoMsg, id_prefix |-> << >>, content |-> << >>,
           sender_name |-> << >>, display_content |-> << >>]

CmdIdle == [pc |-> "recv", kind |-> "none", rid |-> 0, peer |-> << >>,
            message |-> << >>, todo |-> {}]

\* ------------------------------------------------------------------------
\* Peer registry
\* ------------------------------------------------------------------------

EmptyRegistry == << >>

\* peers.get(id_prefix).cloned().unwrap_or_else(|| id_prefix.to_string())
NameOrPrefix(registry, id_prefix) ==
    IF id_prefix \in DOMAIN registry THEN registry[id_prefix] ELSE id_prefix

\* A variant of ClearIfFull: a registry that is never cleared.
KeepIfFull(registry) == registry

\* A variant of ClearIfFull: the registry is cleared one entry later.
ClearIfFullLate(registry) ==
    IF Cardinality(DOMAIN registry) > REGISTRY_LIMIT + 1 THEN EmptyRegistry
    ELSE registry

\* if peers.len() > 1000 { peers.clear() }
ClearIfFull(registry) ==
    IF Cardinality(DOMAIN registry) > REGISTRY_LIMIT THEN EmptyRegistry ELSE registry

\* A variant of OrInsert: insert() in place of entry().or_insert_with().
Upsert(registry, id_prefix, sender_name) ==
    [k \in DOMAIN registry \cup {id_prefix} |->
        IF k = id_prefix THEN sender_name ELSE registry[k]]

\* peers.entry(id_prefix).or_insert_with(|| sender_name)
OrInsert(registry, id_prefix, sender_name) ==
    IF id_prefix \in DOMAIN registry THEN registry
    ELSE [k \in DOMAIN registry \cup {id_prefix} |->
            IF k = id_prefix THEN sender_name ELSE registry[k]]

\* ------------------------------------------------------------------------
\* PubSub handler
\* ------------------------------------------------------------------------

\* A variant of PsDrops: the topic is not compared.
PsDropsAnyTopic(n, msg) ==
    \/ Size(msg.data) > MAX_MESSAGE_SIZE_BYTES
    \/ msg.from = NodeIdentity[n]

\* A variant of PsDrops: the sender is not compared with this node's identity.
PsDropsOwn(n, msg) ==
    \/ Size(msg.data) > MAX_MESSAGE_SIZE_BYTES
    \/ msg.topic # RoomTopic(args[n].room)

\* The three `continue`s at the top of the loop.
PsDrops(n, msg) ==
    \/ Size(msg.data) > MAX_MESSAGE_SIZE_BYTES
    \/ msg.topic # RoomTopic(args[n].room)
    \/ msg.from = NodeIdentity[n]

\* A variant of LegacySenderName: the name before the first '@' of the text,
\* whether or not ": " follows.
LegacyNameAnyAt(text, id_prefix) ==
    LET inner == SplitOnce(text, <<64>>)
    IN  IF inner.found THEN inner.before ELSE id_prefix

\* Legacy plain-text fallback: the name before '@' in what precedes ": ".
LegacySenderName(text, id_prefix) ==
    LET outer == SplitOnce(text, <<58, 32>>)
        inner == SplitOnce(outer.before, <<64>>)
    IN  IF outer.found /\ inner.found THEN inner.before ELSE id_prefix

\* format!("{}@{}: {}", name, id_prefix, content)
RoomLine(name, id_prefix, content) ==
    name \o <<64>> \o id_prefix \o <<58, 32>> \o content

\* pubsub_rx.recv(), the filters and the decode, up to the first lock.
PsRecv(n) ==
    /\ Running(n)
    /\ ps[n].pc = "recv"
    /\ pubsub_rx[n] # << >>
    /\ LET msg == Head(pubsub_rx[n])
           id_prefix == ShortId(msg.from)
           data == Bytes(msg.data)
           group_msg == DecGroupMessage(data)
           text == from_utf8_lossy(data)
           taken == [PsIdle EXCEPT !.msg = msg]
       IN  ps' = [ps EXCEPT ![n] =
                IF PsDrops(n, msg) THEN taken
                ELSE IF group_msg.ok
                THEN [taken EXCEPT !.pc = "lookup", !.id_prefix = id_prefix,
                                   !.content = Hold(group_msg.val.content)]
                ELSE [taken EXCEPT !.pc = "track", !.id_prefix = id_prefix,
                                   !.sender_name = LegacySenderName(text, id_prefix),
                                   !.display_content = Hold(text)]]
    /\ pubsub_rx' = [pubsub_rx EXCEPT ![n] = Tail(@)]
    /\ UNCHANGED <<args, peers, lock, dm_rx, stdin_rx, cmd, calls, published,
                   printed, used,
                   rx_open, dm_task, built>>

\* { let peers = peers_for_pubsub.read().await; peers.get(id_prefix).cloned() }
PsLookup(n) ==
    /\ Running(n)
    /\ ps[n].pc = "lookup"
    /\ lock[n].writer = "none"
    /\ LET name == NameOrPrefix(peers[n], ps[n].id_prefix)
       IN  ps' = [ps EXCEPT ![n].pc = "track",
                            ![n].sender_name = name,
                            ![n].display_content =
                                Hold(RoomLine(name, ps[n].id_prefix,
                                              Bytes(ps[n].content)))]
    /\ UNCHANGED <<args, peers, lock, pubsub_rx, dm_rx, stdin_rx, cmd, calls,
                   published, printed, used,
                   rx_open, dm_task, built>>

\* A variant of PsTrackLock: the upsert does not wait for the readers.
PsTrackLockShared(n) ==
    /\ Running(n)
    /\ ps[n].pc = "track"
    /\ lock[n].writer = "none"
    /\ lock' = [lock EXCEPT ![n].writer = "pubsub"]
    /\ ps' = [ps EXCEPT ![n].pc = "clear"]
    /\ UNCHANGED <<args, peers, pubsub_rx, dm_rx, stdin_rx, cmd, calls, published,
                   printed, used,
                   rx_open, dm_task, built>>

\* let mut peers = peers_for_pubsub.write().await
PsTrackLock(n) ==
    /\ Running(n)
    /\ ps[n].pc = "track"
    /\ lock[n] = NoLock
    /\ lock' = [lock EXCEPT ![n].writer = "pubsub"]
    /\ ps' = [ps EXCEPT ![n].pc = "clear"]
    /\ UNCHANGED <<args, peers, pubsub_rx, dm_rx, stdin_rx, cmd, calls, published,
                   printed, used,
                   rx_open, dm_task, built>>

\* if peers.len() > 1000 { peers.clear(); }
PsTrackClear(n) ==
    /\ Running(n)
    /\ ps[n].pc = "clear"
    /\ peers' = [peers EXCEPT ![n] = ClearIfFull(@)]
    /\ ps' = [ps EXCEPT ![n].pc = "insert"]
    /\ UNCHANGED <<args, lock, pubsub_rx, dm_rx, stdin_rx, cmd, calls, published,
                   printed, used,
                   rx_open, dm_task, built>>

\* A variant of PsTrackInsert: the write guard outlives the block.
PsTrackInsertKeeps(n) ==
    /\ Running(n)
    /\ ps[n].pc = "insert"
    /\ peers' = [peers EXCEPT ![n] = OrInsert(@, ps[n].id_prefix, ps[n].sender_name)]
    /\ ps' = [ps EXCEPT ![n].pc = "print"]
    /\ UNCHANGED <<args, lock, pubsub_rx, dm_rx, stdin_rx, cmd, calls, published,
                   printed, used,
                   rx_open, dm_task, built>>

\* peers.entry(..).or_insert_with(..); the write guard drops at the block's end.
PsTrackInsert(n) ==
    /\ Running(n)
    /\ ps[n].pc = "insert"
    /\ peers' = [peers EXCEPT ![n] = OrInsert(@, ps[n].id_prefix, ps[n].sender_name)]
    /\ lock' = [lock EXCEPT ![n].writer = "none"]
    /\ ps' = [ps EXCEPT ![n].pc = "print"]
    /\ UNCHANGED <<args, pubsub_rx, dm_rx, stdin_rx, cmd, calls, published,
                   printed, used,
                   rx_open, dm_task, built>>

\* println!("[room] {}", sanitize_text(&display_content))
PsPrint(n) ==
    /\ Running(n)
    /\ ps[n].pc = "print"
    /\ printed' = Say(n, "room",
                      Line("room", sanitize_text(Bytes(ps[n].display_content)),
                           << >>, << >>, ""))
    /\ ps' = [ps EXCEPT ![n] = [PsIdle EXCEPT !.msg = ps[n].msg]]
    /\ UNCHANGED <<args, peers, lock, pubsub_rx, dm_rx, stdin_rx, cmd, calls,
                   published, used,
                   rx_open, dm_task, built>>

\* pubsub_rx.recv() returns None: the stream is closed and drained; the
\* `while let` loop and the task end.
PsEnd(n) ==
    /\ Running(n)
    /\ ps[n].pc = "recv"
    /\ pubsub_rx[n] = << >>
    /\ ~rx_open[n].pubsub_rx
    /\ ps' = [ps EXCEPT ![n].pc = "ended"]
    /\ UNCHANGED <<args, peers, lock, pubsub_rx, dm_rx, stdin_rx, cmd, calls,
                   published, printed, rx_open, dm_task, used, built>>

\* ------------------------------------------------------------------------
\* DM handler
\* ------------------------------------------------------------------------

\* match dm.message_type.as_str()
DmTag(message_type) ==
    CASE message_type = MessageTypeTag.Text            -> ""
      [] message_type = MessageTypeTag.ContactRequest  -> " [contact request]"
      [] message_type = MessageTypeTag.ContactAccepted -> " [contact accepted]"
      [] message_type = MessageTypeTag.ReadReceipt     -> " [read receipt]"
      [] message_type = MessageTypeTag.GroupInvite     -> " [group invite]"
      [] message_type = MessageTypeTag.Vibe            -> " [vibe]"
      [] message_type = MessageTypeTag.ProfileUpdate   -> " [profile update]"
      [] OTHER                                         -> "other"

\* What the handler prints for a request it does not drop.
DmLine(req) ==
    LET from_short == ShortId(req.from)
        dm == DecDirectMessage(req.data)
        tag == DmTag(dm.val.message_type)
    IN  IF dm.ok
        THEN Line("dm", from_short, sanitize_text(dm.val.content),
                  IF tag = "other" THEN dm.val.message_type ELSE << >>, tag)
        ELSE Line("dm", from_short, sanitize_text(from_utf8_lossy(req.data)),
                  << >>, "")

\* A variant of DmReply: the structured Ack on the fallback path too.
DmReplyAck(req) == AckSuccessBytes

\* What the handler sends on response_tx for a request it does not drop.
DmReply(req) ==
    IF DecDirectMessage(req.data).ok THEN AckSuccessBytes ELSE LEGACY_ACK

\* Variants of DmDrops: a handler that also skips what it cannot decode, and
\* one that skips nothing.
DmDropsUndecodable(req) ==
    Len(req.data) > MAX_MESSAGE_SIZE_BYTES \/ ~DecDirectMessage(req.data).ok

DmDropsNothing(req) == FALSE

\* The item (from, data, response_tx) of incoming_requests().
Request(rid) ==
    [from |-> calls[rid].from, data |-> Bytes(calls[rid].data),
     response_tx |-> rid]

\* if data.len() > MAX_MESSAGE_SIZE_BYTES { continue; }
DmDrops(req) == Len(req.data) > MAX_MESSAGE_SIZE_BYTES

\* A variant of DmHandle: `break` in place of `continue` for an oversized
\* request.
DmHandleBreaks(n) ==
    /\ Running(n)
    /\ dm_task[n].pc = "recv"
    /\ dm_rx[n] # << >>
    /\ LET req == Request(Head(dm_rx[n]))
       IN  IF DmDrops(req)
           THEN /\ calls' = [calls EXCEPT ![req.response_tx].received = TRUE]
                /\ dm_task' = [dm_task EXCEPT ![n].pc = "ended"]
                /\ UNCHANGED printed
           ELSE /\ printed' = Say(n, "dm", DmLine(req))
                /\ calls' = [calls EXCEPT
                                ![req.response_tx].received = TRUE,
                                ![req.response_tx].replies = Append(@, DmReply(req))]
                /\ UNCHANGED dm_task
    /\ dm_rx' = [dm_rx EXCEPT ![n] = Tail(@)]
    /\ UNCHANGED <<args, peers, lock, pubsub_rx, ps, stdin_rx, cmd, published, used,
                   rx_open, built>>

\* A variant of DmHandle: the handler registers the sender of a request it
\* prints.
DmHandleTracks(n) ==
    /\ Running(n)
    /\ dm_task[n].pc = "recv"
    /\ dm_rx[n] # << >>
    /\ LET req == Request(Head(dm_rx[n]))
       IN  IF DmDrops(req)
           THEN /\ calls' = [calls EXCEPT ![req.response_tx].received = TRUE]
                /\ UNCHANGED <<printed, peers>>
           ELSE /\ printed' = Say(n, "dm", DmLine(req))
                /\ peers' = [peers EXCEPT ![n] =
                                OrInsert(@, ShortId(req.from), ShortId(req.from))]
                /\ calls' = [calls EXCEPT
                                ![req.response_tx].received = TRUE,
                                ![req.response_tx].replies = Append(@, DmReply(req))]
    /\ dm_rx' = [dm_rx EXCEPT ![n] = Tail(@)]
    /\ UNCHANGED <<args, lock, pubsub_rx, ps, stdin_rx, cmd, published, used,
                   rx_open, dm_task, built>>

\* A variant of DmReady: the handler is polled only while the command loop of
\* its node waits for a line, as if both were one task.
DmReadyWhenIdle(n) ==
    /\ Running(n)
    /\ cmd[n].pc = "recv"
    /\ dm_task[n].pc = "recv"
    /\ dm_rx[n] # << >>

\* The spawned DM task is at dm_rx.recv().await and the stream holds an item:
\* recv() returns Some and the body runs. Nothing else is awaited.
DmReady(n) ==
    /\ Running(n)
    /\ dm_task[n].pc = "recv"
    /\ dm_rx[n] # << >>

\* One turn of the DM handler's loop: dm_rx.recv() to the end of the body.
DmHandle(n) ==
    /\ DmReady(n)
    /\ LET req == Request(Head(dm_rx[n]))
       IN  IF DmDrops(req)
           THEN /\ calls' = [calls EXCEPT ![req.response_tx].received = TRUE]
                /\ UNCHANGED printed
           ELSE /\ printed' = Say(n, "dm", DmLine(req))
                /\ calls' = [calls EXCEPT
                                ![req.response_tx].received = TRUE,
                                ![req.response_tx].replies = Append(@, DmReply(req))]
    /\ dm_rx' = [dm_rx EXCEPT ![n] = Tail(@)]
    /\ UNCHANGED <<args, peers, lock, pubsub_rx, ps, stdin_rx, cmd, published, used,
                   rx_open, dm_task, built>>

\* dm_rx.recv() returns None: the stream is closed and drained; the task ends.
DmEnd(n) ==
    /\ Running(n)
    /\ dm_task[n].pc = "recv"
    /\ dm_rx[n] = << >>
    /\ ~rx_open[n].dm_rx
    /\ dm_task' = [dm_task EXCEPT ![n].pc = "ended"]
    /\ UNCHANGED <<args, peers, lock, pubsub_rx, ps, dm_rx, stdin_rx, cmd, calls,
                   published, printed, rx_open, used, built>>

\* ------------------------------------------------------------------------
\* Command loop
\* ------------------------------------------------------------------------

\* random_hex_id(): 32 lowercase hex characters.
RandomIds == {Rep(48, 32), Rep(102, 32)}

\* current_timestamp_ms(): the clock readings the model draws.
LateClock == 300

ClockReadings == {0, LateClock}

\* What the model draws for random_hex_id() and current_timestamp_ms() together.
Stamps == RandomIds \X ClockReadings

\* The command words.
SLASH_QUIT == <<47,113,117,105,116>>
SLASH_HELP == <<47,104,101,108,112>>
SLASH_PEERS == <<47,112,101,101,114,115>>
SLASH_LIST == <<47,108,105,115,116>>
SLASH_TELEMETRY == <<47,116,101,108,101,109,101,116,114,121>>
SLASH_FABRIC == <<47,102,97,98,114,105,99>>
SLASH_ROUTING == <<47,114,111,117,116,105,110,103>>
SLASH_DHT == <<47,100,104,116>>
SLASH_DM == <<47,100,109>>
SLASH_CONTACT == <<47,99,111,110,116,97,99,116>>
CMD_DM == SLASH_DM \o <<32>>
CMD_CONTACT == SLASH_CONTACT \o <<32>>

\* A variant of CmdArm: no arm for the other lines that start with '/'.
CmdArmNoFallback(line) ==
    IF line = SLASH_QUIT THEN "quit"
    ELSE IF line = SLASH_HELP THEN "help"
    ELSE IF line = SLASH_PEERS THEN "peers"
    ELSE IF line = SLASH_LIST THEN "list"
    ELSE IF line = SLASH_TELEMETRY THEN "telemetry"
    ELSE IF StartsWith(line, CMD_DM) THEN "dm"
    ELSE IF StartsWith(line, CMD_CONTACT) THEN "contact"
    ELSE "room"

\* A variant of CmdArm: no "/list" arm.
CmdArmNoList(line) ==
    IF line = SLASH_QUIT THEN "quit"
    ELSE IF line = SLASH_HELP THEN "help"
    ELSE IF line = SLASH_PEERS THEN "peers"
    ELSE IF line = SLASH_TELEMETRY THEN "telemetry"
    ELSE IF StartsWith(line, CMD_DM) THEN "dm"
    ELSE IF StartsWith(line, CMD_CONTACT) THEN "contact"
    ELSE IF StartsWith(line, <<47>>) THEN "unknown"
    ELSE "room"

\* The arm of `match line` a trimmed, non-empty line takes, in the order tested.
CmdArm(line) ==
    IF line = SLASH_QUIT THEN "quit"
    ELSE IF line = SLASH_HELP THEN "help"
    ELSE IF line = SLASH_PEERS THEN "peers"
    ELSE IF line = SLASH_LIST THEN "list"
    ELSE IF line = SLASH_TELEMETRY THEN "telemetry"
    ELSE IF StartsWith(line, CMD_DM) THEN "dm"
    ELSE IF StartsWith(line, CMD_CONTACT) THEN "contact"
    ELSE IF StartsWith(line, <<47>>) THEN "unknown"
    ELSE "room"

\* A variant of InvalidIdentity: the length check alone.
InvalidLength(peer_identity) == Len(peer_identity) # MAX_IDENTITY_LENGTH

\* peer_identity.len() != MAX_IDENTITY_LENGTH || hex::decode(peer_identity).is_err()
InvalidIdentity(peer_identity) ==
    Len(peer_identity) # MAX_IDENTITY_LENGTH \/ ~HexDecodes(peer_identity)

\* The checks of the /dm arm, in order: "ok" when the message is to be sent.
DmCheck(line) ==
    LET parts == SplitN(line, 3)
    IN  IF Len(parts) < 3 THEN "usage"
        ELSE IF Len(parts[3]) > MAX_MESSAGE_SIZE_BYTES THEN "too_large"
        ELSE IF InvalidIdentity(parts[2]) THEN "invalid_identity"
        ELSE "ok"

\* The checks of the /contact arm.
ContactCheck(line) ==
    LET parts == SplitN(line, 2)
    IN  IF Len(parts) < 2 THEN "usage"
        ELSE IF InvalidIdentity(parts[2]) THEN "invalid_identity"
        ELSE "ok"

\* The line the loop is about to dispatch: stdin_rx.recv() then line.trim().
NextLine(n) == Trim(Bytes(Head(stdin_rx[n].queue)))

CmdReady(n) ==
    /\ Running(n)
    /\ cmd[n].pc = "recv"
    /\ stdin_rx[n].queue # << >>

Dequeue(n) == [stdin_rx EXCEPT ![n].queue = Tail(@)]

\* node.send(peer_identity, payload): the request and its response channel; the
\* transport hands it to the peer's incoming_requests() when the link is up.
Transmit(n, kind, peer_identity, message, payload, link) ==
    LET rid == Len(calls) + 1
        call == [caller |-> n, from |-> NodeIdentity[n], to |-> peer_identity,
                 data |-> Hold(payload), link |-> link, received |-> FALSE,
                 replies |-> << >>]
    IN  /\ calls' = Append(calls, call)
        /\ dm_rx' = [m \in Node |->
                        IF /\ link = "up"
                           /\ NodeIdentity[m] = peer_identity
                           /\ Running(m)
                           /\ rx_open[m].dm_rx
                        THEN Append(dm_rx[m], rid)
                        ELSE dm_rx[m]]
        /\ cmd' = [cmd EXCEPT ![n] = [CmdIdle EXCEPT !.pc = "send", !.kind = kind,
                                                    !.rid = rid,
                                                    !.peer = peer_identity,
                                                    !.message = Hold(message)]]

\* stdin_rx.recv() returns None: the stdin thread has ended and the queue is
\* drained; the loop ends and main returns.
CmdEof(n) ==
    /\ Running(n)
    /\ cmd[n].pc = "recv"
    /\ stdin_rx[n].queue = << >>
    /\ ~stdin_rx[n].open
    /\ cmd' = [cmd EXCEPT ![n].pc = "done"]
    /\ UNCHANGED <<args, peers, lock, pubsub_rx, ps, dm_rx, stdin_rx, calls,
                   published, printed, used,
                   rx_open, dm_task, built>>

\* "/quit": Goodbye, break.
CmdQuit(n) ==
    /\ CmdReady(n)
    /\ NextLine(n) # << >>
    /\ CmdArm(NextLine(n)) = "quit"
    /\ printed' = Say(n, "cmd", Line("goodbye", << >>, << >>, << >>, ""))
    /\ cmd' = [cmd EXCEPT ![n].pc = "done"]
    /\ stdin_rx' = Dequeue(n)
    /\ UNCHANGED <<args, peers, lock, pubsub_rx, ps, dm_rx, calls, published, used,
                   rx_open, dm_task, built>>

\* The arms that only print: an empty line (nothing), /help, /list, /telemetry,
\* and any other line starting with '/'.
CmdPrint(n) ==
    /\ CmdReady(n)
    /\ LET line == NextLine(n)
           arm == IF line = << >> THEN "empty" ELSE CmdArm(line)
       IN  /\ arm \in {"empty", "help", "list", "telemetry", "unknown"}
           /\ printed' = IF arm = "empty" THEN printed
                         ELSE Say(n, "cmd", Line(arm, << >>, << >>, << >>, ""))
    /\ stdin_rx' = Dequeue(n)
    /\ UNCHANGED <<args, peers, lock, pubsub_rx, ps, dm_rx, cmd, calls, published,
                   used,
                   rx_open, dm_task, built>>

\* "/peers": up to peers.read().await.
CmdPeers(n) ==
    /\ CmdReady(n)
    /\ NextLine(n) # << >>
    /\ CmdArm(NextLine(n)) = "peers"
    /\ cmd' = [cmd EXCEPT ![n].pc = "peers"]
    /\ stdin_rx' = Dequeue(n)
    /\ UNCHANGED <<args, peers, lock, pubsub_rx, ps, dm_rx, calls, published,
                   printed, used,
                   rx_open, dm_task, built>>

\* The read guard is taken; an empty registry is reported and the guard dropped,
\* otherwise the header is printed and the iteration starts.
CmdPeersLock(n) ==
    /\ Running(n)
    /\ cmd[n].pc = "peers"
    /\ lock[n].writer = "none"
    /\ IF DOMAIN peers[n] = {}
       THEN /\ printed' = Say(n, "cmd", Line("no_peers", << >>, << >>, << >>, ""))
            /\ cmd' = [cmd EXCEPT ![n] = CmdIdle]
            /\ UNCHANGED lock
       ELSE /\ printed' = Say(n, "cmd", Line("known_peers", << >>, << >>, << >>, ""))
            /\ cmd' = [cmd EXCEPT ![n].pc = "peers_iter", ![n].todo = DOMAIN peers[n]]
            /\ lock' = [lock EXCEPT ![n].readers = @ \cup {"cmd"}]
    /\ UNCHANGED <<args, peers, pubsub_rx, ps, dm_rx, stdin_rx, calls, published, used,
                   rx_open, dm_task, built>>

\* for (id_prefix, name) in guard.iter(): one entry, in the map's own order; the
\* guard drops after the last.
CmdPeersNext(n) ==
    /\ Running(n)
    /\ cmd[n].pc = "peers_iter"
    /\ \E id_prefix \in cmd[n].todo :
          LET name == IF id_prefix \in DOMAIN peers[n] THEN peers[n][id_prefix]
                      ELSE << >>
              rest == cmd[n].todo \ {id_prefix}
          IN  /\ printed' = Say(n, "cmd", Line("peer", name, id_prefix, << >>,
                                               IF id_prefix \in DOMAIN peers[n]
                                               THEN "" ELSE "gone"))
              /\ IF rest = {}
                 THEN /\ cmd' = [cmd EXCEPT ![n] = CmdIdle]
                      /\ lock' = [lock EXCEPT ![n].readers = @ \ {"cmd"}]
                 ELSE /\ cmd' = [cmd EXCEPT ![n].todo = rest]
                      /\ UNCHANGED lock
    /\ UNCHANGED <<args, peers, pubsub_rx, ps, dm_rx, stdin_rx, calls, published, used,
                   rx_open, dm_task, built>>

\* "/dm <identity> <message>": the checks, then DirectMessage::text and node.send.
CmdDm(n, stamps, links) ==
    /\ CmdReady(n)
    /\ LET line == NextLine(n)
           check == DmCheck(line)
           parts == SplitN(line, 3)
       IN  /\ line # << >>
           /\ CmdArm(line) = "dm"
           /\ IF check # "ok"
              THEN /\ printed' = Say(n, "cmd", Line(check, << >>, << >>, << >>, ""))
                   /\ UNCHANGED <<cmd, calls, dm_rx>>
              ELSE /\ \E stamp \in stamps, link \in links :
                         Transmit(n, "dm", parts[2], parts[3],
                                  EncDirectMessage(
                                      NewDirectMessage(stamp[1], parts[3], stamp[2],
                                                       "Text")),
                                  link)
                   /\ UNCHANGED printed
    /\ stdin_rx' = Dequeue(n)
    /\ UNCHANGED <<args, peers, lock, pubsub_rx, ps, published, used,
                   rx_open, dm_task, built>>

\* "/contact <identity>": the check, then DirectMessage::contact_request(&args.name).
CmdContact(n, stamps, links) ==
    /\ CmdReady(n)
    /\ LET line == NextLine(n)
           check == ContactCheck(line)
           parts == SplitN(line, 2)
       IN  /\ line # << >>
           /\ CmdArm(line) = "contact"
           /\ IF check # "ok"
              THEN /\ printed' = Say(n, "cmd", Line(check, << >>, << >>, << >>, ""))
                   /\ UNCHANGED <<cmd, calls, dm_rx>>
              ELSE /\ \E stamp \in stamps, link \in links :
                         Transmit(n, "contact", parts[2], << >>,
                                  EncDirectMessage(
                                      NewDirectMessage(stamp[1], Bytes(args[n].name),
                                                       stamp[2], "ContactRequest")),
                                  link)
                   /\ UNCHANGED printed
    /\ stdin_rx' = Dequeue(n)
    /\ UNCHANGED <<args, peers, lock, pubsub_rx, ps, published, used,
                   rx_open, dm_task, built>>

\* How the /dm arm marks a response.
DmAckMark(response) ==
    LET a == DecAckResponse(response)
    IN  IF a.ok /\ a.ack THEN "ok"
        ELSE IF from_utf8_lossy(response) = LEGACY_ACK THEN "ok"
        ELSE "?"

\* How the /contact arm words a response.
ContactStatus(response) ==
    LET a == DecAckResponse(response)
    IN  IF a.ok /\ a.ack THEN "sent" ELSE "sent (legacy peer)"

\* The call the loop is waiting on.
Pending(n) == calls[cmd[n].rid]

\* The request will never be answered: the link is down, the peer is gone or
\* its DM handler has ended, or the peer dropped the response channel without
\* sending on it.
Unanswered(c) ==
    \/ c.link = "down"
    \/ c.received /\ c.replies = << >>
    \/ \E m \in Node : /\ NodeIdentity[m] = c.to
                       /\ ~Running(m) \/ dm_task[m].pc = "ended"
                       /\ c.replies = << >>

\* Ok(Ok(response)): the response arrived within the ten seconds.
CmdSendResponse(n) ==
    /\ Running(n)
    /\ cmd[n].pc = "send"
    /\ Pending(n).link = "up"
    /\ Pending(n).replies # << >>
    /\ LET response == Pending(n).replies[1]
       IN  printed' = Say(n, "cmd",
                IF cmd[n].kind = "dm"
                THEN Line("dm_sent", SubSeq(cmd[n].peer, 1, 8),
                          Bytes(cmd[n].message), << >>, DmAckMark(response))
                ELSE Line("contact_sent", SubSeq(cmd[n].peer, 1, 8),
                          Bytes(args[n].name), << >>, ContactStatus(response)))
    /\ cmd' = [cmd EXCEPT ![n] = CmdIdle]
    /\ UNCHANGED <<args, peers, lock, pubsub_rx, ps, dm_rx, stdin_rx, calls,
                   published, used,
                   rx_open, dm_task, built>>

\* Ok(Err(e)): "Failed to send".
CmdSendFailed(n) ==
    /\ Running(n)
    /\ cmd[n].pc = "send"
    /\ Unanswered(Pending(n))
    /\ printed' = Say(n, "cmd", Line(IF cmd[n].kind = "dm" THEN "dm_error"
                                     ELSE "contact_error",
                                     << >>, << >>, << >>, "Failed to send"))
    /\ cmd' = [cmd EXCEPT ![n] = CmdIdle]
    /\ UNCHANGED <<args, peers, lock, pubsub_rx, ps, dm_rx, stdin_rx, calls,
                   published, used,
                   rx_open, dm_task, built>>

\* A variant of CmdSendTimeout: the timeout ends the command loop.
CmdSendTimeoutFatal(n) ==
    /\ Running(n)
    /\ cmd[n].pc = "send"
    /\ Unanswered(Pending(n))
    /\ printed' = Say(n, "cmd", Line(IF cmd[n].kind = "dm" THEN "dm_error"
                                     ELSE "contact_error",
                                     << >>, << >>, << >>,
                                     "Timeout: peer unreachable"))
    /\ cmd' = [cmd EXCEPT ![n].pc = "done"]
    /\ UNCHANGED <<args, peers, lock, pubsub_rx, ps, dm_rx, stdin_rx, calls,
                   published, used,
                   rx_open, dm_task, built>>

\* Err(_): the ten seconds elapsed, "Timeout: peer unreachable".
CmdSendTimeout(n) ==
    /\ Running(n)
    /\ cmd[n].pc = "send"
    /\ Unanswered(Pending(n))
    /\ printed' = Say(n, "cmd", Line(IF cmd[n].kind = "dm" THEN "dm_error"
                                     ELSE "contact_error",
                                     << >>, << >>, << >>,
                                     "Timeout: peer unreachable"))
    /\ cmd' = [cmd EXCEPT ![n] = CmdIdle]
    /\ UNCHANGED <<args, peers, lock, pubsub_rx, ps, dm_rx, stdin_rx, calls,
                   published, used,
                   rx_open, dm_task, built>>

\* Anything else is broadcast: the size check, GroupMessage::text, node.publish,
\* and on success the local echo.  The transport hands the message to any of the
\* running nodes subscribed to the topic.
CmdBroadcast(n, stamps, outcomes) ==
    /\ CmdReady(n)
    /\ LET line == NextLine(n)
           room_topic == RoomTopic(args[n].room)
           formatted == RoomLine(Bytes(args[n].name),
                                 SubSeq(NodeIdentity[n], 1, 8), line)
           echo == sanitize_text(formatted)
       IN  /\ line # << >>
           /\ CmdArm(line) = "room"
           /\ IF Len(line) > MAX_MESSAGE_SIZE_BYTES
              THEN /\ printed' = Say(n, "cmd",
                                     Line("too_large", << >>, << >>, << >>, ""))
                   /\ UNCHANGED <<published, pubsub_rx>>
              ELSE \E stamp \in stamps, ok \in outcomes, dests \in SUBSET Node :
                      LET payload == EncGroupMessage(
                              NewGroupMessage(stamp[1], line, stamp[2], "Text",
                                              args[n].room))
                      IN  /\ \A m \in dests :
                                /\ ok
                                /\ Running(m)
                                /\ rx_open[m].pubsub_rx
                                /\ RoomTopic(args[m].room) = room_topic
                          /\ published' = Append(published,
                                  [by |-> n, topic |-> room_topic,
                                   data |-> Hold(payload), ok |-> ok])
                          /\ pubsub_rx' = [m \in Node |->
                                  IF m \in dests
                                  THEN Append(pubsub_rx[m],
                                              [topic |-> room_topic,
                                               from |-> NodeIdentity[n],
                                               data |-> Hold(payload)])
                                  ELSE pubsub_rx[m]]
                          /\ printed' = Say(n, "cmd",
                                  IF ok THEN Line("room", echo, << >>, << >>, "")
                                  ELSE Line("publish_error", << >>, << >>, << >>,
                                            "Failed to send message"))
    /\ stdin_rx' = Dequeue(n)
    /\ UNCHANGED <<args, peers, lock, ps, dm_rx, cmd, calls, used,
                   rx_open, dm_task, built>>

\* ------------------------------------------------------------------------
\* Environment: the operator, and the peers behind the Korium node
\* ------------------------------------------------------------------------

\* Inputs the model draws for each node and from the network.
MaxLines == 2
MaxEnv == 2

\* The stdin thread: one line read and stdin_tx.blocking_send(l).
TypeLine(n, l) ==
    /\ Running(n)
    /\ stdin_rx[n].open
    /\ Len(stdin_rx[n].queue) < STDIN_CHANNEL_CAPACITY
    /\ used.lines[n] < MaxLines
    /\ stdin_rx' = [stdin_rx EXCEPT ![n].queue = Append(@, Hold(l))]
    /\ used' = [used EXCEPT !.lines[n] = @ + 1]
    /\ UNCHANGED <<args, peers, lock, pubsub_rx, ps, dm_rx, cmd, calls, published,
                   printed,
                   rx_open, dm_task, built>>

\* The stdin thread: reader.lines() ends (end of input, or a read error).
StdinEof(n) ==
    /\ Running(n)
    /\ stdin_rx[n].open
    /\ stdin_rx' = [stdin_rx EXCEPT ![n].open = FALSE]
    /\ UNCHANGED <<args, peers, lock, pubsub_rx, ps, dm_rx, cmd, calls, published,
                   printed, used,
                   rx_open, dm_task, built>>

\* node.messages() yields a message some other peer published.
EnvPublish(n, msg) ==
    /\ Running(n)
    /\ rx_open[n].pubsub_rx
    /\ used.env < MaxEnv
    /\ pubsub_rx' = [pubsub_rx EXCEPT ![n] =
                        Append(@, [msg EXCEPT !.data = Hold(@)])]
    /\ used' = [used EXCEPT !.env = @ + 1]
    /\ UNCHANGED <<args, peers, lock, ps, dm_rx, stdin_rx, cmd, calls, published,
                   printed,
                   rx_open, dm_task, built>>

\* node.incoming_requests() yields a request some other peer sent.
EnvRequest(n, from, data) ==
    /\ Running(n)
    /\ rx_open[n].dm_rx
    /\ used.env < MaxEnv
    /\ calls' = Append(calls, [caller |-> "env", from |-> from,
                               to |-> NodeIdentity[n], data |-> Hold(data),
                               link |-> "up", received |-> FALSE,
                               replies |-> << >>])
    /\ dm_rx' = [dm_rx EXCEPT ![n] = Append(@, Len(calls) + 1)]
    /\ used' = [used EXCEPT !.env = @ + 1]
    /\ UNCHANGED <<args, peers, lock, pubsub_rx, ps, stdin_rx, cmd, published,
                   printed,
                   rx_open, dm_task, built>>

\* node.incoming_requests() yields a request whose sender has dropped the
\* receiving end of response_tx: response_tx.send() fails, `let _ =` ignores it.
EnvRequestGone(n, from, data) ==
    /\ Running(n)
    /\ rx_open[n].dm_rx
    /\ used.env < MaxEnv
    /\ calls' = Append(calls, [caller |-> "env", from |-> from,
                               to |-> NodeIdentity[n], data |-> Hold(data),
                               link |-> "gone", received |-> FALSE,
                               replies |-> << >>])
    /\ dm_rx' = [dm_rx EXCEPT ![n] = Append(@, Len(calls) + 1)]
    /\ used' = [used EXCEPT !.env = @ + 1]
    /\ UNCHANGED <<args, peers, lock, pubsub_rx, ps, stdin_rx, cmd, published,
                   printed,
                   rx_open, dm_task, built>>

\* A call of DirectMessage::read_receipt: the system clock is read twice and
\* does not run backwards between the two readings.
ReadReceipt(message_ids, id_clock, now) ==
    /\ id_clock <= now
    /\ used.env < MaxEnv
    /\ built' = Append(built, [message_ids |-> message_ids,
                               dm |-> read_receipt(message_ids, id_clock, now)])
    /\ used' = [used EXCEPT !.env = @ + 1]
    /\ UNCHANGED <<args, peers, lock, pubsub_rx, ps, dm_rx, stdin_rx, cmd, calls,
                   published, printed, rx_open, dm_task>>

\* The Korium node drops the sender side of node.messages() or of
\* node.incoming_requests(): nothing more is queued on that stream.
EnvClose(n, stream) ==
    /\ Running(n)
    /\ rx_open[n][stream]
    /\ rx_open' = [rx_open EXCEPT ![n][stream] = FALSE]
    /\ UNCHANGED <<args, peers, lock, pubsub_rx, ps, dm_rx, stdin_rx, cmd, calls,
                   published, printed, dm_task, used, built>>

\* A peer that is not one of the nodes answers the send the loop is waiting on.
EnvRespond(n, response) ==
    /\ Running(n)
    /\ cmd[n].pc = "send"
    /\ Pending(n).link = "up"
    /\ Pending(n).replies = << >>
    /\ \A m \in Node : NodeIdentity[m] # Pending(n).to
    /\ calls' = [calls EXCEPT ![cmd[n].rid].received = TRUE,
                              ![cmd[n].rid].replies = <<response>>]
    /\ UNCHANGED <<args, peers, lock, pubsub_rx, ps, dm_rx, stdin_rx, cmd,
                   published, printed, used,
                   rx_open, dm_task, built>>

\* ------------------------------------------------------------------------
\* Specifications
\* ------------------------------------------------------------------------

TEXT_LOBBY == <<108,111,98,98,121>>
TEXT_ALICE == <<97,108,105,99,101>>
TEXT_BOB == <<98,111,98>>

\* The state after construction, for the given display names and registry.
Start(names, registry) ==
    /\ args = [n \in Node |-> [name |-> Hold(names[n]), room |-> TEXT_LOBBY]]
    /\ peers = [n \in Node |-> registry]
    /\ lock = [n \in Node |-> NoLock]
    /\ pubsub_rx = [n \in Node |-> << >>]
    /\ ps = [n \in Node |-> PsIdle]
    /\ dm_rx = [n \in Node |-> << >>]
    /\ stdin_rx = [n \in Node |-> [open |-> TRUE, queue |-> << >>]]
    /\ cmd = [n \in Node |-> CmdIdle]
    /\ calls = << >>
    /\ published = << >>
    /\ printed = [n \in Node |-> [room |-> << >>, dm |-> << >>, cmd |-> << >>]]
    /\ rx_open = [n \in Node |-> [pubsub_rx |-> TRUE, dm_rx |-> TRUE]]
    /\ dm_task = [n \in Node |-> [pc |-> "recv"]]
    /\ used = [lines |-> [n \in Node |-> 0], env |-> 0]
    /\ built = << >>

Names == [A |-> TEXT_ALICE, B |-> TEXT_BOB]

Init == Start(Names, EmptyRegistry)

PubSubTask(n) ==
    \/ PsRecv(n)
    \/ PsLookup(n)
    \/ PsTrackLock(n)
    \/ PsTrackClear(n)
    \/ PsTrackInsert(n)
    \/ PsPrint(n)

\* Identities of peers that are not nodes of the model: IdC; IdC2, which shares
\* IdC's first eight characters; and a short one.
IdC == Rep(99, 64)
IdC2 == Rep(99, 8) \o Rep(100, 56)
IdShort == <<100, 101>>

\* Not an identity: 64 characters that are not hex digits.
IdNotHex == Rep(103, 64)

\* Text exactly at the size limit, and one byte over it.
AtLimit == Rep(120, MAX_MESSAGE_SIZE_BYTES)
OverLimit == Rep(120, MAX_MESSAGE_SIZE_BYTES + 1)

\* A DirectMessage as a peer would encode it, of any message_type string.
WireDm(content, message_type) ==
    EncDirectMessage([id |-> Rep(48, 32), content |-> content, timestamp |-> 0,
                      message_type |-> message_type])

WireGm(content) ==
    EncGroupMessage(NewGroupMessage(Rep(48, 32), content, 0, "Text", TEXT_LOBBY))

TEXT_HI == <<104,105>>
TEXT_HELLO == <<104,101,108,108,111>>

\* Request payloads: every kind the handler tags, a known kind it does not tag,
\* an unknown kind, trailing bytes, legacy text, nothing, bytes that are not
\* UTF-8, and buffers at and over the size limit.
ReqPayloads ==
    {WireDm(TEXT_HI, MessageTypeTag[k]) :
        k \in {"Text", "ContactRequest", "ContactAccepted", "ReadReceipt",
               "GroupInvite", "Vibe", "ProfileUpdate", "Image"}}
    \cup {WireDm(TEXT_HI, <<115,116,105,99,107,101,114>>),
          WireDm(TEXT_HI, MessageTypeTag.Text) \o <<7, 7>>,
          TEXT_HELLO,
          << >>,
          <<255>>,
          AtLimit,
          OverLimit}

PubMsg(topic, from, data) == [topic |-> topic, from |-> from, data |-> data]

\* Published messages: structured and legacy, two names under one prefix, a short
\* sender, a short sender whose text names another peer's prefix, another
\* topic, the node's own identity, and the size limit.
PubInputs(n) ==
    LET here == RoomTopic(TEXT_LOBBY)
    IN  {PubMsg(here, IdC, WireGm(TEXT_HI)),
         PubMsg(here, IdShort, <<98,111,98,64,99,99,99,99,99,99,99,99,58,32,121,111>>),
         PubMsg(here, IdC, <<98,111,98,64,99,99,99,99,99,99,99,99,58,32,121,111>>),
         PubMsg(here, IdC2, <<99,97,114,111,108,64,99,99,99,99,99,99,99,99,58,32,104,101,121>>),
         PubMsg(here, IdC, <<110,111,32,112,97,116,116,101,114,110,32,104,101,114,101>>),
         PubMsg(here, IdShort, WireGm(TEXT_HI)),
         PubMsg(RoomTopic(<<100,101,110>>), IdC, WireGm(TEXT_HI)),
         PubMsg(here, NodeIdentity[n], WireGm(TEXT_HI)),
         PubMsg(here, IdC, AtLimit),
         PubMsg(here, IdC, OverLimit)}

\* The few requests SpecInbound draws beside the published messages.
FewPayloads ==
    {WireDm(TEXT_HI, MessageTypeTag.Text), TEXT_HELLO, AtLimit, OverLimit,
     WireDm(AtLimit, MessageTypeTag.Text)}

\* The published messages SpecInbound draws: structured, legacy, and legacy
\* text at and over the size limit.
FewMessages ==
    LET here == RoomTopic(TEXT_LOBBY)
    IN  {PubMsg(here, IdC, WireGm(TEXT_HI)),
         PubMsg(here, IdC, <<98,111,98,64,99,99,99,99,99,99,99,99,58,32,121,111>>),
         PubMsg(here, IdC, AtLimit),
         PubMsg(here, IdC, OverLimit)}

\* The two consumers of node A, fed by the network.
NextInbound ==
    \/ \E msg \in FewMessages : EnvPublish("A", msg)
    \/ \E data \in FewPayloads : EnvRequest("A", IdC, data)
    \/ PubSubTask("A")
    \/ DmHandle("A")

SpecInbound == Init /\ [][NextInbound]_vars

\* The PubSub handler of node A, fed every kind of published message.
NextPub ==
    \/ \E msg \in PubInputs("A") : EnvPublish("A", msg)
    \/ PubSubTask("A")

SpecPub == Init /\ [][NextPub]_vars

\* Legacy plain text: "bob@cccccccc: yo"; "a@b@cccccccc: x: y"; "no pattern
\* here"; "note: a@b"; "a@b"; "plain" from a sender with a two-character
\* identity; a name that is not UTF-8; an empty name.
LegacyInputs ==
    LET here == RoomTopic(TEXT_LOBBY)
    IN  {PubMsg(here, IdC, <<98,111,98,64,99,99,99,99,99,99,99,99,58,32,121,111>>),
         PubMsg(here, IdC, <<97,64,98,64,99,99,99,99,99,99,99,99,58,32,120,58,32,121>>),
         PubMsg(here, IdC, <<110,111,32,112,97,116,116,101,114,110,32,104,101,114,101>>),
         PubMsg(here, IdC, <<110,111,116,101,58,32,97,64,98>>),
         PubMsg(here, IdC, <<97,64,98>>),
         PubMsg(here, IdShort, <<112,108,97,105,110>>),
         PubMsg(here, IdC, <<255,64,120,58,32,121>>),
         PubMsg(here, IdC, <<64,99,99,99,99,99,99,99,99,58,32,104,105>>)}

\* The PubSub handler of node A, fed legacy plain text and one structured
\* message.
NextLegacy ==
    \/ \E msg \in LegacyInputs : EnvPublish("A", msg)
    \/ EnvPublish("A", PubMsg(RoomTopic(TEXT_LOBBY), IdC, WireGm(TEXT_HI)))
    \/ PubSubTask("A")

SpecLegacy == Init /\ [][NextLegacy]_vars

\* The DM handler of node A, fed every kind of request.
NextDm ==
    \/ \E data \in ReqPayloads : EnvRequest("A", IdC, data)
    \/ DmHandle("A")

SpecDm == Init /\ [][NextDm]_vars

\* A registry holding REGISTRY_LIMIT peers that each published a structured
\* message: every prefix is registered under itself.
HexChar(d) == IF d < 10 THEN 48 + d ELSE 87 + d

FloodIdentity(k) ==
    <<102, HexChar((k \div 256) % 16), HexChar((k \div 16) % 16), HexChar(k % 16)>>
        \o Rep(48, 60)

Flooded ==
    LET keys == {ShortId(FloodIdentity(k)) : k \in 1..REGISTRY_LIMIT}
    IN  [key \in keys |-> key]

\* The PubSub handler of node A with the registry empty or at its limit: peers
\* not yet registered, a registered one, and two names under one prefix.
RegInputs ==
    LET here == RoomTopic(TEXT_LOBBY)
    IN  {PubMsg(here, FloodIdentity(k), WireGm(TEXT_HI)) :
            k \in {1, REGISTRY_LIMIT + 1, REGISTRY_LIMIT + 2}}
        \cup {PubMsg(here, IdC, <<98,111,98,64,99,99,99,99,99,99,99,99,58,32,121,111>>),
              PubMsg(here, IdC2, <<99,97,114,111,108,64,99,99,99,99,99,99,99,99,58,32,104,101,121>>),
              PubMsg(here, IdC, WireGm(TEXT_HI))}

InitReg == \E registry \in {EmptyRegistry, Flooded} : Start(Names, registry)

NextReg ==
    \/ \E msg \in RegInputs : EnvPublish("A", msg)
    \/ PubSubTask("A")

SpecReg == InitReg /\ [][NextReg]_vars

\* The display name of a node: a short one, or one as long as a whole message.
HugeName == Rep(110, MAX_MESSAGE_SIZE_BYTES)

\* The /dm and /contact arms and the three outcomes of node.send.
SendArms(n, stamps) ==
    \/ CmdDm(n, stamps, {"up", "down"})
    \/ CmdContact(n, stamps, {"up", "down"})
    \/ CmdSendResponse(n)
    \/ CmdSendFailed(n)
    \/ CmdSendTimeout(n)

\* The broadcast arm, with every delivery the transport may make.
BroadcastArm(n) ==
    CmdBroadcast(n, Stamps, BOOLEAN)

\* The arms that neither send nor publish, and the end of input.
LocalArms(n) ==
    \/ CmdEof(n)
    \/ CmdQuit(n)
    \/ CmdPrint(n)
    \/ CmdPeers(n)
    \/ CmdPeersLock(n)
    \/ CmdPeersNext(n)

\* The /dm and /contact lines the operator of node A types in SpecCmd: a valid
\* identity, and identities that are missing, empty, short, one character
\* short, not hex, or followed by more text; messages over the size limit.
IdentityLines ==
    {CMD_DM \o IdC \o <<32>> \o TEXT_HELLO,
     CMD_DM \o IdC,
     CMD_DM \o <<32>> \o IdC \o <<32>> \o TEXT_HELLO,
     CMD_DM \o <<122, 122>> \o <<32>> \o TEXT_HELLO,
     CMD_DM \o Rep(97, 63) \o <<32>> \o TEXT_HELLO,
     CMD_DM \o IdNotHex \o <<32>> \o TEXT_HELLO,
     CMD_DM \o IdC \o <<32>> \o OverLimit,
     CMD_DM \o <<122, 122>> \o <<32>> \o OverLimit,
     CMD_CONTACT \o IdC,
     CMD_CONTACT \o <<122, 122>>,
     CMD_CONTACT \o IdNotHex,
     CMD_CONTACT \o IdC \o <<32>> \o TEXT_HELLO}

\* What a peer that is not a node answers: the structured Ack, ack = false, the
\* legacy token, nothing, the Ack followed by more bytes, and other bytes.
Responses ==
    {AckSuccessBytes, <<0>>, LEGACY_ACK, << >>, <<1, 7>>, <<2>>, TEXT_HELLO}

\* The command loop of node A sending to peers outside the model.
NextCmd ==
    \/ \E l \in IdentityLines : TypeLine("A", l)
    \/ SendArms("A", {<<Rep(48, 32), 0>>})
    \/ \E response \in {AckSuccessBytes, LEGACY_ACK} : EnvRespond("A", response)

SpecCmd == Init /\ [][NextCmd]_vars

\* The two sends the operator of node A makes in SpecAck.
AckLines ==
    {CMD_DM \o IdC \o <<32>> \o TEXT_HELLO,
     CMD_CONTACT \o IdC}

\* Node A sending to a peer outside the model that answers anything.
NextAck ==
    \/ \E l \in AckLines : TypeLine("A", l)
    \/ SendArms("A", {<<Rep(48, 32), 0>>})
    \/ \E response \in Responses : EnvRespond("A", response)

SpecAck == Init /\ [][NextAck]_vars

\* The lines the operator of node A types in Spec.
ChatLines ==
    {TEXT_HI,
     CMD_CONTACT \o NodeIdentity.B,
     CMD_DM \o NodeIdentity.B \o <<32>> \o TEXT_HELLO}

\* Two nodes in one room: the operator of A chats with B.
Next ==
    \/ \E l \in ChatLines : TypeLine("A", l)
    \/ \E n \in Node :
        \/ SendArms(n, Stamps)
        \/ BroadcastArm(n)
        \/ PubSubTask(n)
        \/ DmHandle(n)

Spec == Init /\ [][Next]_vars

\* The same two nodes at the size limit: A started with a display name as long
\* as a whole message, or sends B a message of exactly the limit.
LimitLines ==
    {CMD_CONTACT \o NodeIdentity.B,
     CMD_DM \o NodeIdentity.B \o <<32>> \o AtLimit}

InitLimit ==
    \E name \in {TEXT_ALICE, HugeName} :
        Start([A |-> name, B |-> TEXT_BOB], EmptyRegistry)

NextLimit ==
    \/ \E l \in LimitLines : TypeLine("A", l)
    \/ SendArms("A", Stamps)
    \/ DmHandle("B")

SpecLimit == InitLimit /\ [][NextLimit]_vars

\* One node, every arm of its command loop, its peers outside the model.
LoopLines ==
    {SLASH_QUIT, SLASH_HELP, SLASH_PEERS, SLASH_LIST, SLASH_TELEMETRY,
     SLASH_FABRIC, SLASH_ROUTING, SLASH_DHT, SLASH_DM, SLASH_CONTACT,
     << >>, <<32, 9>>, <<32>> \o SLASH_HELP \o <<32>>, TEXT_HI}

SeenBob == [key \in {ShortId(IdC)} |-> TEXT_BOB]

InitLoop == \E registry \in {EmptyRegistry, SeenBob} : Start(Names, registry)

NextLoop ==
    \/ \E l \in LoopLines : TypeLine("A", l)
    \/ used.lines.A = 0 /\ TypeLine("A", OverLimit)
    \/ StdinEof("A")
    \/ LocalArms("A")
    \/ CmdBroadcast("A", {<<Rep(48, 32), 0>>}, BOOLEAN)

SpecLoop == InitLoop /\ [][NextLoop]_vars

\* Lines that fail: /dm without a message, /contact to a bad identity; and
\* lines that reach the transport: /dm and free text.
ErrLines ==
    {CMD_DM \o IdC,
     CMD_CONTACT \o <<122, 122>>,
     CMD_DM \o IdC \o <<32>> \o TEXT_HELLO,
     TEXT_HI}

InitErr == Start(Names, SeenBob)

\* Node A with its three tasks: the operator's commands fail in every way (no
\* link, no publish; free text over the limit is the first line typed, if it is
\* typed) while the network feeds both handlers.
NextErr ==
    \/ \E l \in ErrLines : TypeLine("A", l)
    \/ used.lines.A = 0 /\ TypeLine("A", OverLimit)
    \/ CmdDm("A", {<<Rep(48, 32), 0>>}, {"down"})
    \/ CmdContact("A", {<<Rep(48, 32), 0>>}, {"down"})
    \/ CmdSendFailed("A")
    \/ CmdSendTimeout("A")
    \/ CmdBroadcast("A", {<<Rep(48, 32), 0>>}, {FALSE})
    \/ EnvPublish("A", PubMsg(RoomTopic(TEXT_LOBBY), IdC2, WireGm(TEXT_HI)))
    \/ PubSubTask("A")
    \/ EnvRequest("A", IdC, TEXT_HELLO)
    \/ DmHandle("A")

SpecErr == InitErr /\ [][NextErr]_vars

\* A registry one entry over REGISTRY_LIMIT: the next upsert clears it.
Overfull ==
    LET keys == {ShortId(FloodIdentity(k)) : k \in 1..(REGISTRY_LIMIT + 1)}
    IN  [key \in keys |-> key]

\* The PubSub handler of node A in the middle of an upsert into the overfull
\* registry: it holds the write guard and is about to test the size.  What
\* was printed before is left out.
MidUpsert ==
    LET msg == PubMsg(RoomTopic(TEXT_LOBBY), IdC2, WireGm(TEXT_HI))
        id_prefix == ShortId(msg.from)
        name == NameOrPrefix(Overfull, id_prefix)
        at == [PsIdle EXCEPT !.pc = "clear",
                             !.msg = [msg EXCEPT !.data = Hold(@)],
                             !.id_prefix = id_prefix,
                             !.content = Hold(TEXT_HI),
                             !.sender_name = name,
                             !.display_content =
                                 Hold(RoomLine(name, id_prefix, TEXT_HI))]
    IN  /\ args = [n \in Node |-> [name |-> Hold(Names[n]), room |-> TEXT_LOBBY]]
        /\ peers = [n \in Node |-> IF n = "A" THEN Overfull ELSE EmptyRegistry]
        /\ lock = [n \in Node |-> IF n = "A" THEN [NoLock EXCEPT !.writer = "pubsub"]
                                  ELSE NoLock]
        /\ pubsub_rx = [n \in Node |-> << >>]
        /\ ps = [n \in Node |-> IF n = "A" THEN at ELSE PsIdle]
        /\ dm_rx = [n \in Node |-> << >>]
        /\ stdin_rx = [n \in Node |-> [open |-> TRUE, queue |-> << >>]]
        /\ cmd = [n \in Node |-> CmdIdle]
        /\ calls = << >>
        /\ published = << >>
        /\ printed = [n \in Node |-> [room |-> << >>, dm |-> << >>, cmd |-> << >>]]
        /\ rx_open = [n \in Node |-> [pubsub_rx |-> TRUE, dm_rx |-> TRUE]]
        /\ dm_task = [n \in Node |-> [pc |-> "recv"]]
        /\ used = [lines |-> [n \in Node |-> 0], env |-> 0]
        /\ built = << >>

InitSnap == Start(Names, SeenBob) \/ MidUpsert

\* Published messages from a registered peer and from two new ones.
SnapInputs ==
    LET here == RoomTopic(TEXT_LOBBY)
    IN  {PubMsg(here, IdC, WireGm(TEXT_HI)),
         PubMsg(here, IdShort, WireGm(TEXT_HI)),
         PubMsg(here, FloodIdentity(1), WireGm(TEXT_HI))}

\* The operator of node A asks for /peers while its PubSub handler registers
\* the peers it hears.
NextSnap ==
    \/ TypeLine("A", SLASH_PEERS)
    \/ CmdPeers("A")
    \/ CmdPeersLock("A")
    \/ CmdPeersNext("A")
    \/ \E msg \in SnapInputs : EnvPublish("A", msg)
    \/ PubSubTask("A")

SpecSnap == InitSnap /\ [][NextSnap]_vars

\* The lines the operator of node A types in SpecLock: /peers, a /dm and free
\* text.
LockLines ==
    {SLASH_PEERS, CMD_DM \o IdC \o <<32>> \o TEXT_HELLO, TEXT_HI}

\* The command loop and the PubSub handler of node A at every place where they
\* wait: the pub/sub stream, the operator's next line, a send that gets no
\* answer, a publish, the lock.
NextLock ==
    \/ \E l \in LockLines : TypeLine("A", l)
    \/ CmdPeers("A")
    \/ CmdPeersLock("A")
    \/ CmdPeersNext("A")
    \/ CmdDm("A", {<<Rep(48, 32), 0>>}, {"down"})
    \/ CmdSendTimeout("A")
    \/ CmdBroadcast("A", {<<Rep(48, 32), 0>>}, {FALSE})
    \/ EnvPublish("A", PubMsg(RoomTopic(TEXT_LOBBY), IdShort, WireGm(TEXT_HI)))
    \/ PubSubTask("A")

SpecLock == InitSnap /\ [][NextLock]_vars

\* Published messages of the kinds the PubSub handler skips or renders: another
\* topic, the node's own, legacy text, structured.
StopMessages ==
    LET here == RoomTopic(TEXT_LOBBY)
    IN  {PubMsg(RoomTopic(<<100,101,110>>), IdC, WireGm(TEXT_HI)),
         PubMsg(here, NodeIdentity.A, WireGm(TEXT_HI)),
         PubMsg(here, IdC, <<255>>),
         PubMsg(here, IdC, WireGm(TEXT_HI))}

\* Requests: not a DirectMessage, and of an unknown kind.
StopRequests ==
    {<<255>>, WireDm(TEXT_HI, <<115,116,105,99,107,101,114>>)}

\* Node A while the Korium node closes its streams: both handlers run until
\* their stream is closed and drained; the operator asks for /help once a
\* handler has ended.  An item over the size limit is the first the network
\* delivers, if it delivers one.
NextStop ==
    \/ \E msg \in StopMessages : EnvPublish("A", msg)
    \/ \E data \in StopRequests : EnvRequest("A", IdC, data)
    \/ used.env = 0 /\ EnvPublish("A", PubMsg(RoomTopic(TEXT_LOBBY), IdC, OverLimit))
    \/ used.env = 0 /\ EnvRequest("A", IdC, OverLimit)
    \/ EnvRequestGone("A", IdC, WireDm(TEXT_HI, MessageTypeTag.Text))
    \/ \E stream \in {"pubsub_rx", "dm_rx"} : EnvClose("A", stream)
    \/ PubSubTask("A")
    \/ PsEnd("A")
    \/ DmHandle("A")
    \/ DmEnd("A")
    \/ "ended" \in {ps.A.pc, dm_task.A.pc} /\ TypeLine("A", SLASH_HELP)
    \/ CmdPrint("A")

SpecStop == Init /\ [][NextStop]_vars

\* Free text the operator of node A types: "hi", and text with an escape
\* character in it.
EchoLines == {TEXT_HI, <<104, 27, 105>>}

\* Node A broadcasts to the room it shares with node B; the transport may also
\* hand a message back to the node that published it.
NextEcho ==
    \/ \E l \in EchoLines : TypeLine("A", l)
    \/ CmdBroadcast("A", {<<Rep(48, 32), 0>>}, BOOLEAN)
    \/ \E n \in Node : PubSubTask(n)

SpecEcho == Init /\ [][NextEcho]_vars

\* The message ids a read receipt refers to: none, one, two in either order.
ReceiptIds ==
    {<< >>, <<(<<109,49>>)>>, <<(<<109,49>>), (<<109,50>>)>>,
     <<(<<109,50>>), (<<109,49>>)>>}

\* Read receipts built at any readings of the clock.
NextReceipt ==
    \E message_ids \in ReceiptIds, id_clock \in ClockReadings, now \in ClockReadings :
        ReadReceipt(message_ids, id_clock, now)

SpecReceipt == Init /\ [][NextReceipt]_vars

\* The lines the operator of node A types in SpecFrame: /peers, a /dm to node
\* B, and free text.
FrameLines ==
    {SLASH_PEERS, CMD_DM \o NodeIdentity.B \o <<32>> \o TEXT_HELLO, TEXT_HI}

\* Nodes A and B from their start: A lists its peers, sends B a direct message
\* and broadcasts; a peer outside the model publishes to A; both PubSub
\* handlers and B's DM handler run.
NextFrame ==
    \/ \E l \in FrameLines : TypeLine("A", l)
    \/ CmdPeers("A")
    \/ CmdPeersLock("A")
    \/ CmdPeersNext("A")
    \/ CmdDm("A", {<<Rep(48, 32), 0>>}, {"up"})
    \/ CmdSendResponse("A")
    \/ CmdBroadcast("A", {<<Rep(48, 32), 0>>}, {TRUE})
    \/ EnvPublish("A", PubMsg(RoomTopic(TEXT_LOBBY), IdC, WireGm(TEXT_HI)))
    \/ \E n \in Node : PubSubTask(n)
    \/ DmHandle("B")

SpecFrame == Init /\ [][NextFrame]_vars

\* The /dm the operator of node n types to the other node.
CrossLine(n) ==
    CMD_DM \o NodeIdentity[IF n = "A" THEN "B" ELSE "A"] \o <<32>> \o TEXT_HELLO

\* Nodes A and B send each other direct messages, at the same time or not,
\* while a peer outside the model publishes once to A.
NextCross ==
    \/ \E n \in Node : TypeLine(n, CrossLine(n))
    \/ \E n \in Node : CmdDm(n, {<<Rep(48, 32), 0>>}, {"up"})
    \/ \E n \in Node : CmdSendResponse(n)
    \/ \E n \in Node : DmHandle(n)
    \/ /\ used.env = 0
       /\ EnvPublish("A", PubMsg(RoomTopic(TEXT_LOBBY), IdC, WireGm(TEXT_HI)))
    \/ PubSubTask("A")

SpecCross == Init /\ [][NextCross]_vars

\* The runtime runs a task that is ready: a DM handler that stays ready
\* handles its request, and a send whose response has arrived returns.
SpecCrossFair ==
    /\ SpecCross
    /\ \A n \in Node : ([]<>(~DmReady(n))) \/ ([]<><<DmHandle(n)>>_vars)
    /\ \A n \in Node : WF_vars(CmdSendResponse(n))

\* The runtime runs a task that is ready, and the lock is granted once it is
\* free: a task that asks for a guard gets it when it can, and a task inside a
\* guarded block runs on to the block's end.
SpecLockFair ==
    /\ SpecLock
    /\ WF_vars(PsLookup("A"))
    /\ WF_vars(PsTrackLock("A"))
    /\ WF_vars(PsTrackClear("A") \/ PsTrackInsert("A"))
    /\ WF_vars(CmdPeersLock("A") \/ CmdPeersNext("A"))

\* ------------------------------------------------------------------------
\* Direct requests: replies (SpecDm)
\* ------------------------------------------------------------------------

\* The requests the network delivered to a node's incoming_requests().
Inbound == {i \in 1..Len(calls) : calls[i].caller = "env"}

Oversized(data) == Size(data) > 65536

\* C1, as the specification words it: every inbound direct request the DM
\* handler has taken, of any payload and any size, has exactly one reply on its
\* response channel.
C1_ExactlyOneReply ==
    \A i \in Inbound : calls[i].received => Len(calls[i].replies) = 1

\* C1, as the code has it: a request of at most 65536 bytes the DM handler has
\* taken has exactly one reply, decodable or not; one over 65536 bytes has none;
\* a request not yet taken has none; no request ever has more than one.
C1_OneReplyUnlessOversized ==
    \A i \in Inbound :
        LET c == calls[i]
        IN  /\ Len(c.replies) <= 1
            /\ ~c.received => c.replies = << >>
            /\ c.received =>
                  Len(c.replies) = (IF Oversized(c.data) THEN 0 ELSE 1)

\* An oversized request was taken and left unanswered, and a request that does
\* not decode was taken and answered once.
C1_Witness ==
    \E i, j \in Inbound :
        /\ calls[i].received /\ Oversized(calls[i].data) /\ calls[i].replies = << >>
        /\ calls[j].received /\ calls[j].data = Hold(TEXT_HELLO)
        /\ Len(calls[j].replies) = 1

\* C3: the reply to a request of at most 65536 bytes follows the decode: the
\* structured AckResponse{ack: true} when the payload decodes as a
\* DirectMessage, whatever its kind (text, the six tagged kinds, a kind the
\* handler does not tag, an unknown kind string), and the plain bytes
\* "received", which are no structured Ack, when it does not.
C3_ReplyFollowsDecode ==
    \A i \in Inbound :
        LET c == calls[i]
            data == Bytes(c.data)
            reply == c.replies[1]
            kinds == {MessageTypeTag[k] :
                        k \in {"Text", "ContactRequest", "ContactAccepted",
                               "ReadReceipt", "GroupInvite", "Vibe",
                               "ProfileUpdate", "Image"}}
                     \cup {<<115,116,105,99,107,101,114>>}
        IN  (c.received /\ ~Oversized(c.data)) =>
                /\ Len(c.replies) = 1
                /\ DecDirectMessage(data).ok =>
                      /\ reply = <<1>>
                      /\ DecAckResponse(reply) = [ok |-> TRUE, ack |-> TRUE]
                /\ ~DecDirectMessage(data).ok =>
                      /\ reply = <<114,101,99,101,105,118,101,100>>
                      /\ ~DecAckResponse(reply).ok
                /\ (\E kind \in kinds : data = WireDm(TEXT_HI, kind)) =>
                      reply = <<1>>
                /\ data \in {TEXT_HELLO, << >>, <<255>>} =>
                      reply = <<114,101,99,101,105,118,101,100>>

\* A request of an unknown kind was acknowledged with the structured Ack and a
\* request that does not decode with the legacy token.
C3_Witness ==
    \E i, j \in Inbound :
        /\ calls[i].data = Hold(WireDm(TEXT_HI, <<115,116,105,99,107,101,114>>))
        /\ calls[i].replies = <<AckSuccessBytes>>
        /\ calls[j].data = Hold(<<255>>)
        /\ calls[j].replies = <<LEGACY_ACK>>

\* ------------------------------------------------------------------------
\* Oversized items (SpecInbound)
\* ------------------------------------------------------------------------

\* C2: the step in which a consumer takes an item of more than 65536 bytes
\* discards it.  The PubSub handler is back at recv() with nothing printed and
\* the registry as it was; the DM handler has printed nothing and sent no reply;
\* the items queued behind it are still to be taken.
C2_OversizedDiscarded ==
    [][\A n \in Node :
        /\ (/\ pubsub_rx[n] # << >>
            /\ Oversized(Head(pubsub_rx[n]).data)
            /\ pubsub_rx'[n] = Tail(pubsub_rx[n]))
           => /\ ps'[n].pc = "recv"
              /\ printed'[n] = printed[n]
              /\ peers'[n] = peers[n]
              /\ lock'[n] = lock[n]
              /\ Running(n)'
        /\ (/\ dm_rx[n] # << >>
            /\ Oversized(calls[Head(dm_rx[n])].data)
            /\ dm_rx'[n] = Tail(dm_rx[n]))
           => /\ printed'[n] = printed[n]
              /\ calls'[Head(dm_rx[n])].replies = << >>
              /\ Len(calls') = Len(calls)
              /\ Running(n)'
      ]_vars

\* The PubSub handler has taken an oversized message and is back at recv(), the
\* DM handler has taken an oversized request, and nothing was printed or sent.
C2_Witness ==
    \E n \in Node :
        /\ ps[n].pc = "recv"
        /\ Oversized(ps[n].msg.data)
        /\ \E i \in Inbound :
              /\ calls[i].to = NodeIdentity[n]
              /\ calls[i].received
              /\ Oversized(calls[i].data)
              /\ calls[i].replies = << >>
        /\ printed[n].room = << >>
        /\ printed[n].dm = << >>

\* ------------------------------------------------------------------------
\* Registry (SpecReg)
\* ------------------------------------------------------------------------

TEXT_CAROL == <<99,97,114,111,108>>

\* The step is the handler's clear of a registry of more than 1000 entries.
OverflowClear(n) ==
    ps[n].pc = "clear" /\ Cardinality(DOMAIN peers[n]) > 1000

\* C4: first write wins.  A prefix registered under a name stays registered
\* under that name through every step that is no overflow clear, whatever name a
\* later message from that prefix carries; no other entry changes either.
C4_FirstWriteWins ==
    [][\A n \in Node :
        OverflowClear(n) \/
        \A key \in DOMAIN peers[n] :
            key \in DOMAIN peers'[n] /\ peers'[n][key] = peers[n][key]
      ]_vars

\* The prefix is registered as bob and the handler has just tracked a message
\* from the same prefix that names its sender carol.
C4_Witness ==
    \E n \in Node :
        /\ ps[n].pc = "print"
        /\ ps[n].id_prefix = ShortId(IdC)
        /\ ps[n].sender_name = TEXT_CAROL
        /\ ShortId(IdC) \in DOMAIN peers[n]
        /\ peers[n][ShortId(IdC)] = TEXT_BOB

\* C5: an observe that finds more than 1000 entries removes every one of them
\* before it inserts.  The clear step empties the registry; nothing touches the
\* registry between the clear and the insert; the insert adds at most one entry
\* to at most 1000: so the clearing insert leaves at most one entry.
C5_ClearBeforeInsert ==
    [][\A n \in Node :
        /\ (OverflowClear(n) /\ ps'[n].pc = "insert")
              => peers'[n] = EmptyRegistry
        /\ (ps[n].pc = "insert" /\ ps'[n].pc = "insert")
              => peers'[n] = peers[n]
        /\ (ps[n].pc = "insert" /\ ps'[n].pc = "print")
              => /\ Cardinality(DOMAIN peers[n]) <= 1000
                 /\ Cardinality(DOMAIN peers'[n]) <= Cardinality(DOMAIN peers[n]) + 1
                 /\ peers[n] = EmptyRegistry
                       => DOMAIN peers'[n] = {ps[n].id_prefix}
      ]_vars

\* Two peers not seen before published to a node whose registry held 1000
\* entries: after the second insert only the second peer is registered.
C5_Witness ==
    \E n \in Node :
        /\ Len(printed[n].room) = 2
        /\ ps[n].pc = "recv"
        /\ ps[n].msg.from = FloodIdentity(REGISTRY_LIMIT + 2)
        /\ StartsWith(Bytes(printed[n].room[1].a),
                      ShortId(FloodIdentity(REGISTRY_LIMIT + 1)))
        /\ DOMAIN peers[n] = {ShortId(FloodIdentity(REGISTRY_LIMIT + 2))}

\* ------------------------------------------------------------------------
\* /dm and /contact (SpecCmd, SpecAck)
\* ------------------------------------------------------------------------

\* 64 characters, each of 0-9, a-f, A-F.
IsIdentity(s) ==
    /\ Len(s) = 64
    /\ \A i \in 1..Len(s) :
          s[i] \in (48..57) \cup (97..102) \cup (65..70)

\* C6: the step that dispatches a /dm or /contact line whose identity argument
\* is not 64 hex characters sends nothing: no request is made, the line printed
\* is the rejection ("Invalid identity", or "Message too large" when the /dm
\* message fails the size check that comes first), and the loop is back at
\* recv() for the next line.
C6_InvalidIdentityRejected ==
    [][\A n \in Node :
        (CmdReady(n) /\ stdin_rx'[n].queue = Tail(stdin_rx[n].queue)) =>
            LET line == NextLine(n)
                dm == SplitN(line, 3)
                contact == SplitN(line, 2)
                is_dm == StartsWith(line, <<47,100,109,32>>) /\ Len(dm) = 3
                is_contact == StartsWith(line, <<47,99,111,110,116,97,99,116,32>>)
                              /\ Len(contact) = 2
                identity == IF is_dm THEN dm[2] ELSE contact[2]
                said == printed'[n].cmd[Len(printed'[n].cmd)]
            IN  ((is_dm \/ is_contact) /\ ~IsIdentity(identity)) =>
                    /\ calls' = calls
                    /\ dm_rx' = dm_rx
                    /\ published' = published
                    /\ cmd'[n] = CmdIdle
                    /\ Len(printed'[n].cmd) = Len(printed[n].cmd) + 1
                    /\ said.what \in {"invalid_identity", "too_large"}
                    /\ (is_contact \/ Len(dm[3]) <= 65536)
                          => said.what = "invalid_identity"
      ]_vars

\* A line with an invalid identity was rejected and the line after it was
\* dispatched and sent.
C6_Witness ==
    \E n \in Node :
        /\ Len(printed[n].cmd) >= 1
        /\ printed[n].cmd[1].what = "invalid_identity"
        /\ Len(calls) = 1
        /\ calls[1].caller = n
        /\ used.lines[n] = 2

\* What the command loop printed for each send, and the sends it made, in order.
IsOutcome(l) == l.what \in {"dm_sent", "dm_error", "contact_sent", "contact_error"}

Outcomes(n) == SelectSeq(printed[n].cmd, IsOutcome)

CallsOf(n) == SelectSeq(calls, LAMBDA c : c.caller = n)

\* A structured Ack with ack = true, or the legacy token.
ConfirmsDelivery(response) ==
    \/ response # << >> /\ response[1] = 1
    \/ response = <<114,101,99,101,105,118,101,100>>

\* C10: for /dm and for /contact alike a response that confirms delivery and one
\* that does not (ack = false, arbitrary bytes) are never reported the same way.
C10_AmbiguousToldApart ==
    \A n \in Node :
        \A i, j \in 1..Len(Outcomes(n)) :
            LET oi == Outcomes(n)[i]
                oj == Outcomes(n)[j]
                ri == CallsOf(n)[i].replies
                rj == CallsOf(n)[j].replies
            IN  (/\ oi.what = oj.what
                 /\ oi.what \in {"dm_sent", "contact_sent"}
                 /\ ConfirmsDelivery(ri[1])
                 /\ ~ConfirmsDelivery(rj[1]))
                    => oi.mark # oj.mark

\* ------------------------------------------------------------------------
\* Two nodes (Spec, SpecLimit)
\* ------------------------------------------------------------------------

\* C7: every line B's PubSub handler prints for A's broadcast "hi" is
\* "<A-name>@<A-prefix>: hi", and B's registry then maps A's prefix to A's
\* display name.
C7_RenderedUnderName ==
    LET a_prefix == ShortId(NodeIdentity.A)
        a_name == Bytes(args.A.name)
    IN  /\ \A i \in 1..Len(printed.B.room) :
              printed.B.room[i] =
                  Line("room", RoomLine(a_name, a_prefix, TEXT_HI), << >>, << >>, "")
        /\ printed.B.room # << >> =>
              /\ a_prefix \in DOMAIN peers.B
              /\ peers.B[a_prefix] = a_name

\* C8: every /contact A has sent to B over a link that is up, and reported, was
\* answered by B with the structured Ack exactly once, rendered by B with the
\* tag [contact request] and A's display name, and reported by A as "sent".
C8_ContactAcknowledged ==
    \A k \in 1..Len(Outcomes("A")) :
        LET c == CallsOf("A")[k]
            o == Outcomes("A")[k]
        IN  (/\ o.what \in {"contact_sent", "contact_error"}
             /\ c.link = "up"
             /\ c.to = NodeIdentity.B)
                => /\ c.replies = <<AckSuccessBytes>>
                   /\ o.what = "contact_sent"
                   /\ o.mark = "sent"
                   /\ \E j \in 1..Len(printed.B.dm) :
                         /\ printed.B.dm[j].mark = " [contact request]"
                         /\ printed.B.dm[j].b = args.A.name

\* C9: every /dm A has sent to B over a link that is up, and reported, was
\* reported with the confirmed mark.
C9_ReachablePeerConfirms ==
    \A k \in 1..Len(Outcomes("A")) :
        LET c == CallsOf("A")[k]
            o == Outcomes("A")[k]
        IN  (/\ o.what \in {"dm_sent", "dm_error"}
             /\ c.link = "up"
             /\ c.to = NodeIdentity.B)
                => o.what = "dm_sent" /\ o.mark = "ok"

\* ------------------------------------------------------------------------
\* Legacy sender names (SpecLegacy)
\* ------------------------------------------------------------------------

\* text[i], text[i+1] is the first ": " of the text.
FirstColonSpace(text, i) ==
    /\ i \in 1..(Len(text) - 1)
    /\ text[i] = 58 /\ text[i + 1] = 32
    /\ \A k \in 1..(i - 1) : ~(text[k] = 58 /\ text[k + 1] = 32)

\* text[j] is the first '@' of the text and precedes position i.
FirstAtBefore(text, j, i) ==
    /\ j \in 1..(i - 1)
    /\ text[j] = 64
    /\ \A k \in 1..(j - 1) : text[k] # 64

\* The name a legacy text of the form name@prefix: text carries, or the sender's
\* identity prefix when the text is not of that form.
PatternName(text, from) ==
    IF \E i \in 1..Len(text), j \in 1..Len(text) :
            FirstColonSpace(text, i) /\ FirstAtBefore(text, j, i)
    THEN LET j == CHOOSE j \in 1..Len(text) :
                    \E i \in 1..Len(text) :
                        FirstColonSpace(text, i) /\ FirstAtBefore(text, j, i)
         IN  SubSeq(text, 1, j - 1)
    ELSE IF Len(from) <= 8 THEN from ELSE SubSeq(from, 1, 8)

\* C11: the step in which the PubSub handler takes a payload that passes the
\* filters and does not decode as a GroupMessage gives the sender the name
\* before the first '@' of what precedes the first ": " of the text, and the
\* sender's identity prefix (its first 8 characters, or all of a shorter
\* identity) when the text has no such form; the insert step then records that
\* name under the prefix when the prefix is not registered yet.
C11_LegacyName ==
    [][\A n \in Node :
        /\ (ps[n].pc = "recv" /\ ps'[n].pc = "track")
              => LET msg == ps'[n].msg
                     text == from_utf8_lossy(Bytes(msg.data))
                 IN  /\ ~DecGroupMessage(Bytes(msg.data)).ok
                     /\ ps'[n].sender_name = PatternName(text, msg.from)
                     /\ msg.data = Hold(<<98,111,98,64,99,99,99,99,99,99,99,99,58,32,121,111>>)
                           => ps'[n].sender_name = <<98,111,98>>
                     /\ msg.data = Hold(<<110,111,116,101,58,32,97,64,98>>)
                           => ps'[n].sender_name = <<99,99,99,99,99,99,99,99>>
                     /\ msg.data = Hold(<<112,108,97,105,110>>)
                           => ps'[n].sender_name = <<100,101>>
        /\ (ps[n].pc = "insert" /\ ps'[n].pc = "print"
              /\ ps[n].id_prefix \notin DOMAIN peers[n])
              => /\ ps[n].id_prefix \in DOMAIN peers'[n]
                 /\ peers'[n][ps[n].id_prefix] = ps[n].sender_name
                 /\ ps[n].sender_name =
                       PatternName(from_utf8_lossy(Bytes(ps[n].msg.data)),
                                   ps[n].msg.from)
      ]_vars

\* "note: a@b" from cccccccc... was registered under the prefix cccccccc, and
\* then "plain" from the sender "de" was registered under "de".
C11_Witness ==
    /\ DOMAIN peers.A = {<<99,99,99,99,99,99,99,99>>, <<100,101>>}
    /\ peers.A[<<99,99,99,99,99,99,99,99>>] = <<99,99,99,99,99,99,99,99>>
    /\ peers.A[<<100,101>>] = <<100,101>>
    /\ Len(printed.A.room) = 2
    /\ printed.A.room[1].a = Hold(<<110,111,116,101,58,32,97,64,98>>)

\* ------------------------------------------------------------------------
\* Topic and self filters (SpecPub)
\* ------------------------------------------------------------------------

\* The message is on the topic chat/<room> of the node's room and its sender is
\* not the node itself.
ForThisRoom(n, msg) ==
    /\ msg.topic = <<99,104,97,116,47>> \o args[n].room
    /\ msg.from # NodeIdentity[n]

\* C12: the step in which the PubSub handler takes a message on another topic
\* or from the node itself leaves the handler at recv() with nothing printed and
\* the registry and its lock as they were; and every step that prints a room
\* line or changes the registry is a step of the handler working on a message
\* of the subscribed room from another sender.
C12_OnlyRoomAndOthers ==
    [][\A n \in Node :
        /\ (/\ pubsub_rx[n] # << >>
            /\ pubsub_rx'[n] = Tail(pubsub_rx[n])
            /\ ~ForThisRoom(n, Head(pubsub_rx[n])))
           => /\ ps'[n].pc = "recv"
              /\ printed'[n] = printed[n]
              /\ peers'[n] = peers[n]
              /\ lock'[n] = lock[n]
        /\ (printed'[n].room # printed[n].room \/ peers'[n] # peers[n])
           => /\ ps[n].pc \in {"clear", "insert", "print"}
              /\ ForThisRoom(n, ps[n].msg)
      ]_vars

\* The handler took a message of another topic after one it rendered, and is
\* back at recv() with one line printed and one peer registered.
C12_Witness ==
    /\ ps.A.pc = "recv"
    /\ ps.A.msg.topic = <<99,104,97,116,47,100,101,110>>
    /\ pubsub_rx.A = << >>
    /\ used.env = 2
    /\ Len(printed.A.room) = 1
    /\ Cardinality(DOMAIN peers.A) = 1

\* ------------------------------------------------------------------------
\* The command loop (SpecLoop)
\* ------------------------------------------------------------------------

\* The step takes the next line from stdin_rx and dispatches it.
Dispatches(n) ==
    /\ CmdReady(n)
    /\ stdin_rx'[n].queue = Tail(stdin_rx[n].queue)

\* The trimmed line starts with '/'.
LeadingSlash(line) == line # << >> /\ line[1] = 47

\* The command forms the loop recognizes: the five exact words, and "/dm " and
\* "/contact " followed by arguments.
Recognized(line) ==
    \/ line \in {<<47,113,117,105,116>>, <<47,104,101,108,112>>,
                 <<47,112,101,101,114,115>>, <<47,108,105,115,116>>,
                 <<47,116,101,108,101,109,101,116,114,121>>}
    \/ Len(line) >= 4 /\ SubSeq(line, 1, 4) = <<47,100,109,32>>
    \/ Len(line) >= 9 /\ SubSeq(line, 1, 9) = <<47,99,111,110,116,97,99,116,32>>

\* C13: publishes happen only in the step that dispatches a non-empty line
\* without a leading '/', and carry that line; a line with a leading '/' is
\* never published; and a leading-'/' line of no recognized form ("/dm" and
\* "/contact" without arguments among them) prints the unknown-command message,
\* makes no request, publishes nothing and leaves the registry alone.
C13_SlashNeverPublished ==
    [][/\ published' # published =>
            \E n \in Node :
                /\ Dispatches(n)
                /\ NextLine(n) # << >>
                /\ ~LeadingSlash(NextLine(n))
                /\ Len(published') = Len(published) + 1
                /\ published'[Len(published')].by = n
                /\ DecGroupMessage(Bytes(published'[Len(published')].data)).val.content
                      = NextLine(n)
       /\ \A n \in Node :
            (Dispatches(n) /\ LeadingSlash(NextLine(n))) =>
                /\ published' = published
                /\ pubsub_rx' = pubsub_rx
                /\ ~Recognized(NextLine(n)) =>
                      /\ Len(printed'[n].cmd) = Len(printed[n].cmd) + 1
                      /\ printed'[n].cmd[Len(printed'[n].cmd)].what = "unknown"
                      /\ calls' = calls
                      /\ dm_rx' = dm_rx
                      /\ peers' = peers
                      /\ lock' = lock
                      /\ cmd'[n] = CmdIdle
      ]_vars

\* A line was answered with the unknown-command message and the line "hi" after
\* it was published and echoed; nothing was sent.
C13_Witness ==
    /\ used.lines.A = 2
    /\ stdin_rx.A.queue = << >>
    /\ Len(printed.A.cmd) = 2
    /\ printed.A.cmd[1].what = "unknown"
    /\ printed.A.cmd[2].what = "room"
    /\ Len(published) = 1
    /\ calls = << >>

\* The step sends nothing, publishes nothing and leaves the registry alone.
ReadOnlyStep ==
    /\ calls' = calls
    /\ dm_rx' = dm_rx
    /\ published' = published
    /\ pubsub_rx' = pubsub_rx
    /\ peers' = peers

\* The line the step printed last.
SaidBy(n) == printed'[n].cmd[Len(printed'[n].cmd)]

\* C14, as the specification words it: each of /list, /fabric, /routing, /dht
\* and /telemetry is dispatched as an informational command: it is not reported
\* as an unknown command, nothing is sent or published, and the registry is
\* unchanged; /peers and /help leave the registry unchanged.
C14_FiveInformational ==
    [][\A n \in Node :
        Dispatches(n) =>
            /\ NextLine(n) \in {<<47,108,105,115,116>>, <<47,102,97,98,114,105,99>>,
                                <<47,114,111,117,116,105,110,103>>, <<47,100,104,116>>,
                                <<47,116,101,108,101,109,101,116,114,121>>}
                  => /\ ReadOnlyStep
                     /\ Len(printed'[n].cmd) = Len(printed[n].cmd) + 1
                     /\ SaidBy(n).what # "unknown"
            /\ NextLine(n) \in {<<47,112,101,101,114,115>>, <<47,104,101,108,112>>}
                  => peers' = peers
      ]_vars

\* C14, as the code has it: /list and /telemetry are informational commands;
\* /fabric, /routing and /dht are no commands and get the unknown-command
\* message; none of the five is broadcast, sends or publishes anything or
\* changes the registry, and neither does any step of /peers or /help.
C14_ListAndTelemetry ==
    [][\A n \in Node :
        /\ Dispatches(n) =>
            /\ NextLine(n) \in {<<47,108,105,115,116>>, <<47,102,97,98,114,105,99>>,
                                <<47,114,111,117,116,105,110,103>>, <<47,100,104,116>>,
                                <<47,116,101,108,101,109,101,116,114,121>>}
                  => /\ ReadOnlyStep
                     /\ cmd'[n] = CmdIdle
                     /\ Len(printed'[n].cmd) = Len(printed[n].cmd) + 1
                     /\ SaidBy(n).what =
                           (IF NextLine(n) = <<47,108,105,115,116>> THEN "list"
                            ELSE IF NextLine(n) = <<47,116,101,108,101,109,101,116,114,121>>
                            THEN "telemetry"
                            ELSE "unknown")
            /\ NextLine(n) \in {<<47,112,101,101,114,115>>, <<47,104,101,108,112>>}
                  => ReadOnlyStep
        /\ cmd[n].pc \in {"peers", "peers_iter"} => ReadOnlyStep
      ]_vars

\* /list was answered with the peer tables and another line with the
\* unknown-command message; nothing was sent or published.
C14_Witness ==
    /\ used.lines.A = 2
    /\ Len(printed.A.cmd) = 2
    /\ printed.A.cmd[1].what = "list"
    /\ printed.A.cmd[2].what = "unknown"
    /\ published = << >>
    /\ calls = << >>

\* C15: the command loop ends only in the step that dispatches the line /quit;
\* once it has ended no line is dispatched; and no step of the loop ends a
\* handler task.
C15_OnlyQuitEnds ==
    [][\A n \in Node :
        /\ (cmd[n].pc # "done" /\ cmd'[n].pc = "done")
              => /\ Dispatches(n)
                 /\ NextLine(n) = <<47,113,117,105,116>>
        /\ cmd[n].pc = "done"
              => /\ cmd'[n].pc = "done"
                 /\ stdin_rx'[n] = stdin_rx[n]
                 /\ printed'[n] = printed[n]
        /\ cmd'[n] # cmd[n]
              => /\ ps'[n].pc = ps[n].pc
                 /\ dm_task'[n].pc = dm_task[n].pc
      ]_vars

\* ------------------------------------------------------------------------
\* Command errors (SpecErr)
\* ------------------------------------------------------------------------

\* The line reports a failed command: a usage or validation failure, a send or
\* publish error, or a send timeout.
IsErrorLine(l) ==
    l.what \in {"usage", "invalid_identity", "too_large", "dm_error",
                "contact_error", "publish_error"}

\* C16: a step in which the command loop reports a failed command leaves the
\* loop running and waiting for the next line with the lines still queued
\* kept, and changes neither the registry and its lock, nor either handler
\* task and its stream, nor any request in flight; and no step of the command
\* loop changes the registry or stops a handler task.
C16_ErrorsAreLocal ==
    [][\A n \in Node :
        /\ (/\ Len(printed'[n].cmd) = Len(printed[n].cmd) + 1
            /\ IsErrorLine(SaidBy(n)))
              => /\ cmd'[n] = CmdIdle
                 /\ stdin_rx'[n].open = stdin_rx[n].open
                 /\ \/ stdin_rx'[n].queue = stdin_rx[n].queue
                    \/ Dispatches(n)
                 /\ peers' = peers
                 /\ lock' = lock
                 /\ ps' = ps
                 /\ dm_task' = dm_task
                 /\ rx_open' = rx_open
                 /\ pubsub_rx' = pubsub_rx
                 /\ dm_rx' = dm_rx
                 /\ calls' = calls
        /\ (cmd'[n] # cmd[n] \/ printed'[n].cmd # printed[n].cmd)
              => /\ peers' = peers
                 /\ ps' = ps
                 /\ dm_task' = dm_task
                 /\ rx_open' = rx_open
      ]_vars

\* A /dm timed out and the line typed after it was dispatched and its publish
\* failed; the registry is as it was at the start, both handlers are running
\* and the DM handler has handled a request.
C16_Witness ==
    /\ Len(printed.A.cmd) = 2
    /\ printed.A.cmd[1].what = "dm_error"
    /\ printed.A.cmd[1].mark = "Timeout: peer unreachable"
    /\ printed.A.cmd[2].what = "publish_error"
    /\ Len(published) = 1
    /\ peers.A = SeenBob
    /\ cmd.A = CmdIdle
    /\ ps.A.pc = "recv"
    /\ dm_task.A.pc = "recv"
    /\ Len(printed.A.dm) = 1

\* ------------------------------------------------------------------------
\* The registry lock (SpecSnap)
\* ------------------------------------------------------------------------

\* The lines of the /peers listing that ends with the last line printed': the
\* k lines after its "Known peers:" header.
Listing(n, k) ==
    LET out == printed'[n].cmd
    IN  SubSeq(out, Len(out) - k + 1, Len(out))

\* C17: the size check, the clear and the insert run with the write guard held
\* and no reader inside; while /peers iterates it holds the read guard and the
\* registry does not change; the listing /peers completes is the header and,
\* once each, the entries of the registry as it is at that instant; /peers
\* takes its guard only outside an upsert, so it reports no peers only for a
\* registry in which nothing is registered, never for one that was cleared and
\* not yet inserted into; and no listed entry has been cleared away.
C17_UpsertAtomic ==
    [][\A n \in Node :
        /\ ps[n].pc \in {"clear", "insert"}
              => /\ lock[n] = [readers |-> {}, writer |-> "pubsub"]
                 /\ cmd[n].pc # "peers_iter"
                 /\ cmd'[n].pc # "peers_iter"
        /\ cmd[n].pc = "peers_iter"
              => /\ lock[n] = [readers |-> {"cmd"}, writer |-> "none"]
                 /\ peers'[n] = peers[n]
                 /\ cmd[n].todo \subseteq DOMAIN peers[n]
        /\ (cmd[n].pc = "peers" /\ cmd'[n].pc # "peers")
              => /\ ps[n].pc \notin {"clear", "insert"}
                 /\ SaidBy(n).what = "no_peers" <=> DOMAIN peers[n] = {}
        /\ (cmd[n].pc = "peers_iter" /\ cmd'[n].pc = "recv")
              => LET k == Cardinality(DOMAIN peers[n])
                     out == printed'[n].cmd
                 IN  /\ Len(out) > k
                     /\ out[Len(out) - k].what = "known_peers"
                     /\ \A id_prefix \in DOMAIN peers[n] :
                           Cardinality({i \in 1..k :
                               /\ Listing(n, k)[i].what = "peer"
                               /\ Listing(n, k)[i].mark = ""
                               /\ Bytes(Listing(n, k)[i].b) = id_prefix
                               /\ Bytes(Listing(n, k)[i].a) = peers[n][id_prefix]}) = 1
      ]_vars

\* /peers was asked for while the upsert into the overfull registry held the
\* write guard; it waited, and listed the one entry left after the clear and
\* the insert.
C17_Witness ==
    /\ Cardinality(DOMAIN peers.A) = 1
    /\ Len(printed.A.cmd) = 2
    /\ printed.A.cmd[1].what = "known_peers"
    /\ printed.A.cmd[2].what = "peer"
    /\ Bytes(printed.A.cmd[2].b) = ShortId(IdC2)
    /\ cmd.A = CmdIdle
    /\ ps.A.pc = "print"

\* ------------------------------------------------------------------------
\* The registry lock at the places where a task waits (SpecLockFair)
\* ------------------------------------------------------------------------

\* The guards held on node n's registry are the write guard of the PubSub
\* handler between its size check and its insert, and the read guard of the
\* command loop while /peers lists; at every other place of either task, and
\* always in the DM handler, no guard is held.
HeldOnlyInside(n) ==
    /\ lock[n].readers \subseteq {"cmd"}
    /\ lock[n].writer \in {"none", "pubsub"}
    /\ "cmd" \in lock[n].readers <=> cmd[n].pc = "peers_iter"
    /\ lock[n].writer = "pubsub" <=> ps[n].pc \in {"clear", "insert"}

\* C18: no task holds a guard of the registry lock where it waits (for the
\* pub/sub stream, a request, the operator's next line, a send or its timeout,
\* or the lock itself); and a task that waits for the lock gets it.
C18_NoLockWhileWaiting ==
    /\ [](\A n \in Node : HeldOnlyInside(n))
    /\ \A n \in Node :
          /\ (cmd[n].pc = "peers") ~> (cmd[n].pc # "peers")
          /\ (ps[n].pc = "lookup") ~> (ps[n].pc # "lookup")
          /\ (ps[n].pc = "track") ~> (ps[n].pc # "track")

\* The command loop waits for the answer to a /dm, after a /peers that listed
\* the registry, while the PubSub handler is inside an upsert and holds the
\* write guard.
C18_Witness ==
    /\ cmd.A.pc = "send"
    /\ Len(printed.A.cmd) = 2
    /\ printed.A.cmd[2].what = "peer"
    /\ ps.A.pc = "insert"
    /\ lock.A = [readers |-> {}, writer |-> "pubsub"]
    /\ used.env = 1

\* ------------------------------------------------------------------------
\* The end of the handler tasks (SpecStop)
\* ------------------------------------------------------------------------

\* The step takes the next item from the stream.
TakesItem(rx, n) == rx[n] # << >> /\ rx'[n] = Tail(rx[n])

\* C19: a handler task ends only from its recv() with its stream closed and
\* drained, and in that state it can do nothing but end; the step in which a
\* handler takes an item (whatever the item: oversized, malformed, of another
\* topic, the node's own, of an unknown kind, or with nobody left to take the
\* reply) does not end it; the step in which one handler ends leaves the other
\* handler and the command loop as they are; and an ended handler stays ended.
C19_StopWhenClosedAndDrained ==
    [][\A n \in Node :
        /\ (ps[n].pc # "ended" /\ ps'[n].pc = "ended")
              => /\ ps[n].pc = "recv"
                 /\ pubsub_rx[n] = << >>
                 /\ ~rx_open[n].pubsub_rx
                 /\ dm_task' = dm_task
                 /\ cmd' = cmd
        /\ (dm_task[n].pc # "ended" /\ dm_task'[n].pc = "ended")
              => /\ dm_rx[n] = << >>
                 /\ ~rx_open[n].dm_rx
                 /\ ps' = ps
                 /\ cmd' = cmd
        /\ (ps[n].pc = "recv" /\ pubsub_rx[n] = << >> /\ ~rx_open[n].pubsub_rx)
              => /\ ENABLED PsEnd(n)
                 /\ ps'[n] # ps[n] => ps'[n].pc = "ended"
        /\ (dm_task[n].pc = "recv" /\ dm_rx[n] = << >> /\ ~rx_open[n].dm_rx)
              => /\ ENABLED DmEnd(n)
                 /\ dm_task'[n] # dm_task[n] => dm_task'[n].pc = "ended"
        /\ TakesItem(pubsub_rx, n) => ps[n].pc = "recv" /\ ps'[n].pc # "ended"
        /\ TakesItem(dm_rx, n) => dm_task[n].pc = "recv" /\ dm_task'[n].pc = "recv"
        /\ ps[n].pc = "ended" => ps'[n] = ps[n] /\ pubsub_rx'[n] = pubsub_rx[n]
        /\ dm_task[n].pc = "ended" => dm_task'[n] = dm_task[n] /\ dm_rx'[n] = dm_rx[n]
      ]_vars

\* The PubSub handler has ended; the DM handler has skipped an oversized
\* request and answered one whose sender is gone, and is running; the command
\* loop has answered /help.
C19_Witness ==
    /\ ps.A.pc = "ended"
    /\ dm_task.A.pc = "recv"
    /\ Len(calls) = 2
    /\ Size(calls[1].data) > MAX_MESSAGE_SIZE_BYTES
    /\ calls[1].received /\ calls[1].replies = << >>
    /\ calls[2].link = "gone"
    /\ calls[2].replies = <<AckSuccessBytes>>
    /\ Len(printed.A.dm) = 1
    /\ Len(printed.A.cmd) = 1
    /\ printed.A.cmd[1].what = "help"

\* ------------------------------------------------------------------------
\* The local echo of a broadcast (SpecEcho)
\* ------------------------------------------------------------------------

\* How many of the lines are local echoes or renderings of a room message.
RoomLines(out) == Cardinality({i \in 1..Len(out) : out[i].what = "room"})

\* How many publishes of node n succeeded.
Delivered(n) ==
    Cardinality({i \in 1..Len(published) : published[i].by = n /\ published[i].ok})

\* C20: the step in which node n publishes a line prints, on success, the one
\* line "<name>@<first 8 of identity>: <line>" (sanitized) and, on failure, the
\* error and no echo; so the echoes the command loop has printed are as many
\* as its successful publishes; and the PubSub handler that receives the
\* node's own message goes back to recv() with nothing rendered and nothing
\* registered.
C20_EchoOncePerPublish ==
    /\ [](\A n \in Node : RoomLines(printed[n].cmd) = Delivered(n))
    /\ [][\A n \in Node :
            /\ (Len(published') = Len(published) + 1
                /\ published'[Len(published')].by = n)
                  => /\ Dispatches(n)
                     /\ Len(printed'[n].cmd) = Len(printed[n].cmd) + 1
                     /\ printed'[n].room = printed[n].room
                     /\ IF published'[Len(published')].ok
                        THEN SaidBy(n) =
                               Line("room",
                                    sanitize_text(
                                        RoomLine(Bytes(args[n].name),
                                                 SubSeq(NodeIdentity[n], 1, 8),
                                                 NextLine(n))),
                                    << >>, << >>, "")
                        ELSE SaidBy(n).what = "publish_error"
            /\ (TakesItem(pubsub_rx, n) /\ Head(pubsub_rx[n]).from = NodeIdentity[n])
                  => /\ ps'[n].pc = "recv"
                     /\ printed' = printed
                     /\ peers' = peers
            /\ ps[n].msg.from = NodeIdentity[n]
                  => /\ ps[n].pc = "recv"
                     /\ ps'[n].msg = ps[n].msg =>
                           printed'[n].room = printed[n].room /\ peers'[n] = peers[n]
       ]_vars

\* Node A typed two lines: the first publish failed and was reported, the
\* second succeeded and was echoed once; the transport delivered the second
\* back to A, whose PubSub handler took it and rendered and registered nothing.
C20_Witness ==
    /\ Len(published) = 2
    /\ ~published[1].ok
    /\ published[2].ok
    /\ published[2].by = "A"
    /\ Len(printed.A.cmd) = 2
    /\ printed.A.cmd[1].what = "publish_error"
    /\ printed.A.cmd[2].what = "room"
    /\ pubsub_rx.A = << >>
    /\ ps.A.pc = "recv"
    /\ ps.A.msg.from = NodeIdentity.A
    /\ printed.A.room = << >>
    /\ peers.A = EmptyRegistry

\* ------------------------------------------------------------------------
\* Read receipts (SpecReceipt)
\* ------------------------------------------------------------------------

\* The number the decimal digits spell; -1 when they are no canonical decimal.
RECURSIVE DigitsValue(_)
DigitsValue(s) ==
    IF s = << >> \/ \E i \in 1..Len(s) : s[i] < 48 \/ s[i] > 57 THEN -1
    ELSE IF Len(s) > 1 /\ s[1] = 48 THEN -1
    ELSE IF Len(s) = 1 THEN s[1] - 48
    ELSE 10 * DigitsValue(SubSeq(s, 1, Len(s) - 1)) + (s[Len(s)] - 48)

\* C21: every message read_receipt has built has as id "rr-" followed by the
\* decimal value of its own timestamp field, the kind readReceipt, and as
\* content the referenced message ids joined by commas in the given order.
C21_ReceiptIdIsTimestamp ==
    \A i \in 1..Len(built) :
        LET dm == built[i].dm
        IN  /\ Len(dm.id) > 3
            /\ SubSeq(dm.id, 1, 3) = <<114,114,45>>
            /\ DigitsValue(SubSeq(dm.id, 4, Len(dm.id))) = dm.timestamp
            /\ dm.message_type = <<114,101,97,100,82,101,99,101,105,112,116>>
            /\ dm.content = SliceJoin(built[i].message_ids, <<44>>)

\* ------------------------------------------------------------------------
\* Registry keys (SpecPub)
\* ------------------------------------------------------------------------

\* The first min(8, length) bytes of the identities the transport named as
\* senders of the messages node n's handler accepts.
AcceptedPrefixes(n) ==
    {SubSeq(msg.from, 1, IF Len(msg.from) < 8 THEN Len(msg.from) ELSE 8) :
        msg \in {x \in PubInputs(n) :
                    ForThisRoom(n, x) /\ Len(x.data) <= MAX_MESSAGE_SIZE_BYTES}}

\* C22: every key of the registry is the first min(8, length) bytes of the
\* sender identity of an accepted message and is at most 8 long; a key enters
\* the registry only in the handler's insert step and is the prefix of the
\* sender of the message the handler is working on, whatever the payload
\* says; and no step changes the name under a key that stays.
C22_KeysFromTransport ==
    /\ [](\A n \in Node :
            /\ DOMAIN peers[n] \subseteq AcceptedPrefixes(n)
            /\ \A k \in DOMAIN peers[n] : Len(k) <= 8)
    /\ [][\A n \in Node :
            /\ \A k \in DOMAIN peers'[n] \ DOMAIN peers[n] :
                  /\ ps[n].pc = "insert"
                  /\ ForThisRoom(n, ps[n].msg)
                  /\ k = SubSeq(ps[n].msg.from, 1,
                                IF Len(ps[n].msg.from) < 8 THEN Len(ps[n].msg.from)
                                ELSE 8)
            /\ \A k \in DOMAIN peers'[n] \cap DOMAIN peers[n] :
                  peers'[n][k] = peers[n][k]
       ]_vars

\* The sender "de" published the text "bob@cccccccc: yo": it is registered
\* under its own two-character identity with the name bob, and nothing is
\* registered under cccccccc.
C22_Witness ==
    /\ DOMAIN peers.A = {<<100, 101>>}
    /\ peers.A[<<100, 101>>] = <<98, 111, 98>>
    /\ ps.A.pc = "print"
    /\ Bytes(ps.A.msg.data) = <<98,111,98,64,99,99,99,99,99,99,99,99,58,32,121,111>>

\* ------------------------------------------------------------------------
\* Registry size (SpecReg)
\* ------------------------------------------------------------------------

\* C23: the registry of a node never holds more than REGISTRY_LIMIT + 1
\* entries.
C23_AtMost1001 ==
    \A n \in Node : Cardinality(DOMAIN peers[n]) <= REGISTRY_LIMIT + 1

\* A new peer was inserted into the registry of REGISTRY_LIMIT entries, which
\* was not cleared: it holds one more than the limit.
C23_Witness ==
    /\ Cardinality(DOMAIN peers.A) = REGISTRY_LIMIT + 1
    /\ ps.A.pc = "print"
    /\ ps.A.id_prefix \in DOMAIN peers.A
    /\ ps.A.id_prefix \notin DOMAIN Flooded

\* ------------------------------------------------------------------------
\* Who writes the registry (SpecFrame)
\* ------------------------------------------------------------------------

\* C24: every registry starts empty; a step that changes the registry of node n
\* is the clear or the insert of n's PubSub handler and changes no other
\* node's; the step in which the DM handler takes a request leaves every
\* registry and every lock as it was; and every step of the command loop
\* leaves every registry as it was and takes no write guard.
C24_OnlyPubSubWrites ==
    /\ \A n \in Node : peers[n] = << >>
    /\ [][\A n \in Node :
            /\ peers'[n] # peers[n]
                  => /\ ps[n].pc \in {"clear", "insert"}
                     /\ ps'[n].pc # ps[n].pc
                     /\ \A m \in Node \ {n} : peers'[m] = peers[m]
            /\ TakesItem(dm_rx, n) => peers' = peers /\ lock' = lock
            /\ (cmd'[n] # cmd[n] \/ printed'[n].cmd # printed[n].cmd
                \/ stdin_rx'[n] # stdin_rx[n])
                  => /\ peers' = peers
                     /\ lock'[n].writer = lock[n].writer
       ]_vars

\* Node B has rendered and answered a direct message from node A, which A has
\* seen acknowledged, and B's registry is empty; A has listed the one peer
\* its PubSub handler registered.
C24_Witness ==
    /\ Len(printed.B.dm) = 1
    /\ peers.B = << >>
    /\ Len(printed.A.cmd) = 3
    /\ \E i \in 1..3 : printed.A.cmd[i].what = "dm_sent"
    /\ \E i \in 1..3 : printed.A.cmd[i].what = "peer"
    /\ Cardinality(DOMAIN peers.A) = 1

\* ------------------------------------------------------------------------
\* Sends in both directions (SpecCrossFair)
\* ------------------------------------------------------------------------

\* C25: while the command loop of a node waits for the response to a send, the
\* DM handler of that node can handle the request at the head of its stream,
\* and the steps of the PubSub handler do not depend on the command loop;
\* every send a node makes to the other node comes back, and every outcome
\* printed is a delivery the peer acknowledged.
C25_HandlersRunDuringSend ==
    /\ [](\A n \in Node :
            /\ (cmd[n].pc = "send" /\ dm_task[n].pc = "recv" /\ dm_rx[n] # << >>)
                  => DmReady(n)
            /\ (cmd[n].pc = "send" /\ ps[n].pc = "print") => ENABLED PsPrint(n)
            /\ \A i \in 1..Len(printed[n].cmd) :
                  /\ printed[n].cmd[i].what = "dm_sent"
                  /\ printed[n].cmd[i].mark = "ok")
    /\ \A n \in Node : (cmd[n].pc = "send") ~> (cmd[n].pc = "recv")

\* Both command loops wait for the response to their /dm at the same time,
\* and each node's DM handler has already rendered and answered the other's
\* request.
C25_Witness ==
    /\ cmd.A.pc = "send"
    /\ cmd.B.pc = "send"
    /\ Len(calls) = 2
    /\ calls[1].replies = <<AckSuccessBytes>>
    /\ calls[2].replies = <<AckSuccessBytes>>
    /\ Len(printed.A.dm) = 1
    /\ Len(printed.B.dm) = 1

\* ------------------------------------------------------------------------
\* Size of what the command loop sends (SpecLimit)
\* ------------------------------------------------------------------------

\* The calls that carry the Text message of a /dm: every /dm line that passed
\* the size check of the command loop.
IsDmCall(i) ==
    LET dm == DecDirectMessage(Bytes(calls[i].data))
    IN  dm.ok /\ dm.val.message_type = MessageTypeTag.Text

\* C26: the encoded DirectMessage of every /dm the command loop has sent is at
\* most MAX_MESSAGE_SIZE_BYTES long, and the DM handler that received it did
\* not drop it without a reply.
C26_EncodedWithinLimit ==
    \A i \in 1..Len(calls) :
        IsDmCall(i) =>
            /\ Size(calls[i].data) <= MAX_MESSAGE_SIZE_BYTES
            /\ calls[i].received => calls[i].replies # << >>

====
